---------------------------- MODULE Spec2Model ----------------------------
(***************************************************************************)
(* Model of the news analysis pipeline (src/app.py and the services it     *)
(* calls): URL validation, article extraction with fallback, text          *)
(* validation, summarization, sentiment analysis and keyword extraction.   *)
(*                                                                         *)
(* Strings.  A text is a sequence of runs [k, n]: n >= 1 consecutive       *)
(* characters of kind k, adjacent runs having different kinds:             *)
(*   "ko"  Hangul syllables (the regex class [ga-hih], U+AC00..U+D7A3);    *)
(*         a run of them is the word (w, n)                                *)
(*   "ws"  whitespace (\s)                                                 *)
(*   "end" sentence terminators . ! ?                                      *)
(*   "etc" any other character                                             *)
(* Host names are sequences of one-character strings.  User-visible        *)
(* messages and the Korean labels are written as ASCII tags; the original  *)
(* literal is given beside each tag.                                       *)
(*                                                                         *)
(* Floats.  A score is an integer number of 1/One; One = Sub * 10^Places,  *)
(* so that round(x, 4) is a real rounding to multiples of Sub.             *)
(***************************************************************************)
EXTENDS Integers, Sequences, FiniteSets, TLC

VARIABLES
    pc,          \* position of main()/analyze_news in the current request
    url,         \* the sanitized URL of the current request
    info,        \* message shown by st.info(message)
    article,     \* ArticleData returned by the crawler, or None
    summary,     \* SummaryResult, or None
    sentiment,   \* SentimentResult, or None
    keywords,    \* list of KeywordResult, or None
    outcome,     \* how the request ended: [kind, msg]
    trace,       \* calls made so far during the current request
    models,      \* ModelLoader cache: handle name -> number of loads
    settings,    \* the sidebar's settings for the current request
    NEWSPAPER_AVAILABLE,  \* whether newspaper could be imported
    svc_in,      \* direct service call: the arguments and the environment
    svc_out,     \* direct service call: what the call returned, or None
    model_loader,  \* the module global _model_loader: None or an instance
    instances,   \* the ModelLoader objects constructed: their cached handles
    services,    \* the services constructed: [kind, loader]
    threads,     \* the threads using the loader: [pc, kind, loader, ops]
    current_result,    \* st.session_state.current_result: None or a result
    analysis_history   \* st.session_state.analysis_history: list of entries

\* the state of models/model_loader.py, in the detail of its statements
loader_vars == << model_loader, instances, services, threads >>

\* the part of st.session_state that main() keeps between reruns
session_vars == << current_result, analysis_history >>

vars == << pc, url, info, article, summary, sentiment, keywords, outcome,
           trace, models, settings, NEWSPAPER_AVAILABLE, svc_in, svc_out,
           model_loader, instances, services, threads,
           current_result, analysis_history >>

\* an optional value: None, or Some(x) with Val(Some(x)) = x
None == << >>
Some(x) == << x >>
Val(o) == o[1]

-----------------------------------------------------------------------------
(* Bounds of the model *)

\* number of sentences of the longest article
MaxSentences == 3
\* steps of the float grid per unit of the 4th decimal
Sub == 10

-----------------------------------------------------------------------------
(* Texts *)

\* a run of n Hangul syllables is one word; w tells words of equal length apart
KoWord(w, n) == [k |-> "ko", n |-> n, w |-> w]
Ko(n)  == KoWord("w", n)
Ws(n)  == [k |-> "ws",  n |-> n, w |-> ""]
End(n) == [k |-> "end", n |-> n, w |-> ""]
Etc(n) == [k |-> "etc", n |-> n, w |-> ""]

RECURSIVE Len_(_)
\* len(text)
Len_(t) == IF t = << >> THEN 0 ELSE Head(t).n + Len_(Tail(t))

RECURSIVE Count(_, _)
\* number of characters of kind k
Count(t, k) ==
    IF t = << >> THEN 0
    ELSE (IF Head(t).k = k THEN Head(t).n ELSE 0) + Count(Tail(t), k)

RECURSIVE LStrip(_)
LStrip(t) == IF t # << >> /\ Head(t).k = "ws" THEN LStrip(Tail(t)) ELSE t

RECURSIVE RStrip(_)
RStrip(t) ==
    IF t # << >> /\ t[Len(t)].k = "ws"
    THEN RStrip(SubSeq(t, 1, Len(t) - 1)) ELSE t

\* str.strip()
Strip(t) == RStrip(LStrip(t))

\* re.sub(r'\s+', ' ', text): every whitespace run becomes one space
CollapseWs(t) == [i \in 1..Len(t) |-> IF t[i].k = "ws" THEN Ws(1) ELSE t[i]]

\* ' '.join(text.split())
Normalize(t) == CollapseWs(Strip(t))

RECURSIVE Concat(_, _)
\* a + b on texts, keeping adjacent runs of different kinds
Concat(a, b) ==
    IF a = << >> THEN b
    ELSE IF b = << >> THEN a
    ELSE IF a[Len(a)].k = Head(b).k
         THEN SubSeq(a, 1, Len(a) - 1)
              \o << [k |-> Head(b).k, n |-> a[Len(a)].n + Head(b).n,
                     w |-> a[Len(a)].w] >>
              \o Tail(b)
         ELSE a \o b

RECURSIVE SplitFrom(_, _, _)
\* re.split(r'(?<=[.!?])\s+', text): cut at each whitespace run that
\* follows a sentence terminator; cur is the piece being collected
SplitFrom(t, i, cur) ==
    IF i > Len(t) THEN << cur >>
    ELSE IF t[i].k = "ws" /\ i > 1 /\ t[i - 1].k = "end"
         THEN << cur >> \o SplitFrom(t, i + 1, << >>)
         ELSE SplitFrom(t, i + 1, Append(cur, t[i]))

SplitSentences(t) == SplitFrom(t, 1, << >>)

-----------------------------------------------------------------------------
(* utils/validators.py *)

MIN_TEXT_LENGTH == 50
MAX_TEXT_LENGTH == 50000

\* "teksteuga bieoitseumnida." (the text is empty)
MsgEmpty == "text_empty"
\* "teksteuga neomu jjalpseumnida. (choeso 50ja)" (too short, minimum 50)
MsgTooShort == "text_too_short_min_50"
\* "teksteuga neomu gimnida. (choedae 50000ja)" (too long, maximum 50000)
MsgTooLong == "text_too_long_max_50000"
\* "hangugeo kontencheuga geoui eopseumnida." (hardly any Korean content)
MsgNoKorean == "text_hardly_korean"
\* "yuhyohan teksteuimnida." (valid text)
MsgValidText == "text_valid"

\* korean_ratio < 0.1, with korean_ratio = korean_chars / len(text)
RatioBelowTenth(korean_chars, length) == 10 * korean_chars < length

\* a text of exactly the minimum length counts as too short
TextTooShortAtLimit(t) == Len_(t) <= MIN_TEXT_LENGTH

\* len(text) < cls.MIN_TEXT_LENGTH
TextTooShort(t) == Len_(t) < MIN_TEXT_LENGTH

IsValidArticleText(text) ==
    IF text = << >> THEN [ok |-> FALSE, msg |-> MsgEmpty]
    ELSE LET t == Strip(text) IN
         IF TextTooShort(t) THEN [ok |-> FALSE, msg |-> MsgTooShort]
         ELSE IF Len_(t) > MAX_TEXT_LENGTH
              THEN [ok |-> FALSE, msg |-> MsgTooLong]
         ELSE IF RatioBelowTenth(Count(t, "ko"), Len_(t))
              THEN [ok |-> FALSE, msg |-> MsgNoKorean]
         ELSE [ok |-> TRUE, msg |-> MsgValidText]


-----------------------------------------------------------------------------
(* Character strings: host names *)

UpperCase == << "A", "B", "C", "D", "E", "F", "G", "H", "I", "J", "K", "L", "M",
               "N", "O", "P", "Q", "R", "S", "T", "U", "V", "W", "X", "Y", "Z" >>
LowerCase == << "a", "b", "c", "d", "e", "f", "g", "h", "i", "j", "k", "l", "m",
               "n", "o", "p", "q", "r", "s", "t", "u", "v", "w", "x", "y", "z" >>

\* str.lower()
Lower(s) ==
    [i \in 1..Len(s) |->
        IF \E j \in 1..26 : UpperCase[j] = s[i]
        THEN LowerCase[CHOOSE j \in 1..26 : UpperCase[j] = s[i]]
        ELSE s[i]]

\* a in b, for strings
Contains(a, b) ==
    \E i \in 0..(Len(b) - Len(a)) : SubSeq(b, i + 1, i + Len(a)) = a

\* b.startswith(a)
StartsWith(b, a) == Len(a) <= Len(b) /\ SubSeq(b, 1, Len(a)) = a

www_dot == << "w", "w", "w", "." >>

SUPPORTED_NEWS_DOMAINS == <<
    << "n", "a", "v", "e", "r", ".", "c", "o", "m" >>,
    << "d", "a", "u", "m", ".", "n", "e", "t" >>,
    << "c", "h", "o", "s", "u", "n", ".", "c", "o", "m" >>,
    << "d", "o", "n", "g", "a", ".", "c", "o", "m" >>,
    << "j", "o", "o", "n", "g", "a", "n", "g", ".", "c", "o", ".", "k", "r" >>,
    << "h", "a", "n", "i", ".", "c", "o", ".", "k", "r" >>,
    << "k", "h", "a", "n", ".", "c", "o", ".", "k", "r" >>,
    << "y", "o", "n", "h", "a", "p", "n", "e", "w", "s", ".", "c", "o", ".", "k", "r" >>,
    << "y", "n", "a", ".", "c", "o", ".", "k", "r" >>,
    << "m", "k", ".", "c", "o", ".", "k", "r" >>,
    << "h", "a", "n", "k", "y", "u", "n", "g", ".", "c", "o", "m" >>,
    << "m", "t", ".", "c", "o", ".", "k", "r" >>,
    << "s", "e", "d", "a", "i", "l", "y", ".", "c", "o", "m" >>,
    << "e", "t", "n", "e", "w", "s", ".", "c", "o", "m" >>,
    << "z", "d", "n", "e", "t", ".", "c", "o", ".", "k", "r" >>,
    << "i", "t", "w", "o", "r", "l", "d", ".", "c", "o", ".", "k", "r" >> >>

-----------------------------------------------------------------------------
(* utils/validators.py: URLValidator.  A URL is [scheme, netloc]; the path *)
(* is not modelled.  In the typed input, scheme "" stands for a text that   *)
(* does not start with http:// or https://.                                *)

HttpSchemes == {"http", "https"}

\* "olbareun URL hyeongsigi animnida." (not a well-formed URL)
MsgBadUrlFormat == [text |-> "url_bad_format", domain |-> << >>]
\* "jiwondoeneun nyuseu saiteuimnida: <domain>" (supported news site)
MsgSupported(d) == [text |-> "url_supported_site", domain |-> d]
\* "nyuseu URLlo insikdoemnida. (keurolling sido)" (taken as a news URL,
\* crawling will be tried)
MsgTakenAsNews == [text |-> "url_taken_as_news_try_crawl", domain |-> << >>]

SanitizeUrl(input) ==
    IF input.scheme \in HttpSchemes THEN input
    ELSE [scheme |-> "https", netloc |-> input.netloc]

IsValidUrl(u) == u.scheme \in HttpSchemes /\ u.netloc # << >>

\* the domain is_news_url compares: lower-cased, a leading www. removed
NewsDomain(u) ==
    LET d == Lower(u.netloc)
    IN  IF StartsWith(d, www_dot) THEN SubSeq(d, 5, Len(d)) ELSE d

\* indexes of the supported domains found in the URL's domain
SupportedHits(u) ==
    {i \in 1..Len(SUPPORTED_NEWS_DOMAINS) :
        Contains(SUPPORTED_NEWS_DOMAINS[i], NewsDomain(u))}

\* the answer for a well-formed URL whose domain matches no supported one
UnsupportedAnswer == [is_news |-> TRUE, msg |-> MsgTakenAsNews]

IsNewsUrl(u) ==
    IF ~IsValidUrl(u) THEN [is_news |-> FALSE, msg |-> MsgBadUrlFormat]
    ELSE IF SupportedHits(u) # {}
         THEN LET i == CHOOSE i \in SupportedHits(u) :
                           \A j \in SupportedHits(u) : i <= j
              IN  [is_news |-> TRUE, msg |-> MsgSupported(SUPPORTED_NEWS_DOMAINS[i])]
         ELSE UnsupportedAnswer

-----------------------------------------------------------------------------
(* services/crawler.py.  The environment of one extraction is              *)
(*   np:   what newspaper's Article does, [error, text]: error is          *)
(*         "download_error" or "parse_error", or "" and text is the        *)
(*         article text it found                                           *)
(*   http: what the fallback's fetch does, [error, page]: error is         *)
(*         "request_error" (requests.get raises) or "http_error"           *)
(*         (raise_for_status raises), or "" and page is the parsed page    *)
(* A page is [naver, daum, generic, paras]: for each selector group the    *)
(* text of the first element it matches (None if it matches no element),   *)
(* the element's script/style/iframe/.ad subtrees removed, and the texts   *)
(* of the page's <p> elements.                                             *)

naver_com == << "n", "a", "v", "e", "r", ".", "c", "o", "m" >>
daum_net == << "d", "a", "u", "m", ".", "n", "e", "t" >>

NewspaperErrors == {"download_error", "parse_error"}
HttpErrors == {"request_error", "http_error"}

\* _clean_text: re.sub(r'\s+', ' ', text).strip()
CleanText(t) == Strip(CollapseWs(t))

\* paragraphs longer than this are collected by the <p> fallback
MinParagraphLen == 50

RECURSIVE JoinWithSpace(_)
\* ' '.join(pieces)
JoinWithSpace(ps) ==
    IF ps = << >> THEN << >>
    ELSE IF Len(ps) = 1 THEN ps[1]
    ELSE Concat(Concat(Head(ps), << Ws(1) >>), JoinWithSpace(Tail(ps)))

\* ' '.join(p.get_text(strip=True) for p in paragraphs
\*          if len(p.get_text(strip=True)) > 50)
JoinParas(ps) ==
    JoinWithSpace(SelectSeq([i \in 1..Len(ps) |-> Strip(ps[i])],
                            LAMBDA q : Len_(q) > MinParagraphLen))

ExtractContent(page, u) ==
    LET content_elem ==
            IF Contains(naver_com, u.netloc) THEN page.naver
            ELSE IF Contains(daum_net, u.netloc) THEN page.daum
            ELSE page.generic
    IN  IF content_elem # None THEN CleanText(Val(content_elem))
        ELSE CleanText(JoinParas(page.paras))

\* [raised, article, calls]; raised: the exception leaves the method
ExtractWithNewspaper(u, np) ==
    IF np.error \in NewspaperErrors
    THEN [raised |-> TRUE, error |-> np.error, article |-> None]
    ELSE [raised |-> FALSE, error |-> "", article |-> Some([content |-> np.text])]

\* the fallback raises when it recovers no text
ExtractWithBeautifulsoupOrRaise(u, http) ==
    IF http.error \in HttpErrors
    THEN [raised |-> TRUE, error |-> http.error, article |-> None]
    ELSE IF ExtractContent(http.page, u) = << >>
    THEN [raised |-> TRUE, error |-> "no_text", article |-> None]
    ELSE [raised |-> FALSE, error |-> "",
          article |-> Some([content |-> ExtractContent(http.page, u)])]

ExtractWithBeautifulsoup(u, http) ==
    IF http.error \in HttpErrors
    THEN [raised |-> TRUE, error |-> http.error, article |-> None]
    ELSE [raised |-> FALSE, error |-> "",
          article |-> Some([content |-> ExtractContent(http.page, u)])]

\* the fallback is run whatever the primary strategy did
PrimaryFailedAlways(r) == TRUE

\* the primary strategy counts as failed also when it found no text
PrimaryFailedOrEmpty(r) == r.raised \/ Val(r.article).content = << >>

\* does extract_article go on to the fallback after the primary strategy?
\* (the except clause: only an exception leads there)
PrimaryFailed(r) == r.raised

\* the calls of a strategy: its name, and a mark if it raised
Called(name, r) == IF r.raised THEN << name, "raised" >> ELSE << name >>

\* extract_article: [raised, error, article, calls]
ExtractArticle(u, available, np, http) ==
    LET first == ExtractWithNewspaper(u, np)
        second == ExtractWithBeautifulsoup(u, http)
    IN  IF available /\ ~PrimaryFailed(first)
        THEN [raised |-> FALSE, error |-> "", article |-> first.article,
              calls |-> Called("newspaper", first)]
        ELSE [raised |-> second.raised, error |-> second.error,
              article |-> second.article,
              calls |-> (IF available THEN Called("newspaper", first) ELSE << >>)
                        \o Called("beautifulsoup", second)]

-----------------------------------------------------------------------------
(* models/model_loader.py.  models[h] counts the loads of handle h; the    *)
(* cached handle is None exactly while the count is 0.                     *)

Handles == {"summarizer", "sentiment_analyzer", "embedding_model"}

\* the first access of any handle loads every model
LoadHandleEager(m, h, ok) ==
    IF m[h] = 0
    THEN IF ok THEN [raised |-> FALSE,
                     models |-> [k \in DOMAIN m |-> IF m[k] = 0 THEN 1 ELSE m[k]]]
         ELSE [raised |-> TRUE, models |-> m]
    ELSE [raised |-> FALSE, models |-> m]

\* the property of handle h: ok says whether a load, if one is needed,
\* succeeds.  [raised, models]
LoadHandle(m, h, ok) ==
    IF m[h] = 0
    THEN IF ok THEN [raised |-> FALSE, models |-> [m EXCEPT ![h] = m[h] + 1]]
         ELSE [raised |-> TRUE, models |-> m]
    ELSE [raised |-> FALSE, models |-> m]

-----------------------------------------------------------------------------
(* Floats on the grid of 1/One *)

\* round(x, 4) keeps this many decimals
Places == 4
One == Sub * 10 ^ Places

\* round(num / den, 4) for num >= 0, den > 0, in units of 1/One.  A float
\* quotient that lies on a rounding tie is slightly above or below it, or
\* on it (then round goes to the even side): both neighbours are possible.
Round4(num, den) ==
    LET q == num \div (den * Sub)
        r == num % (den * Sub)
    IN  IF 2 * r < den * Sub THEN {q * Sub}
        ELSE IF 2 * r > den * Sub THEN {(q + 1) * Sub}
        ELSE {q * Sub, (q + 1) * Sub}

-----------------------------------------------------------------------------
(* services/sentiment.py.  Labels: POS = "geungjeong" (positive),          *)
(* NEG = "bujeong" (negative), NEU = "jungnip" (neutral).  The environment *)
(* of one call is [load_ok, outs]: whether loading the pipeline succeeds,  *)
(* and what the analyzer does at each of its calls, [kind, label, score]:  *)
(* kind "raise", "empty" (an empty result list) or "ok" (a result with     *)
(* that raw label and score).                                              *)

\* the keys of the scores dict, in insertion order
Labels == << "POS", "NEG", "NEU" >>
LabelSet == {Labels[i] : i \in 1..Len(Labels)}

LABEL_MAP ==
    [positive |-> "POS", negative |-> "NEG", neutral |-> "NEU",
     LABEL_0 |-> "NEG", LABEL_1 |-> "NEU", LABEL_2 |-> "POS"]

\* dict.get(key, default)
DictGet(d, key, default) == IF key \in DOMAIN d THEN d[key] ELSE default

\* self.max_length
max_length == 512

\* sentences shorter than this are not classified
MinSentenceLen == 10

\* the neutral record claims full confidence
FullConfidence == One

\* the confidence of the record returned for empty input and on failure
NeutralConfidence == 0

\* SentimentResult(label="NEU", confidence=0.0,
\*                 scores={"POS": 0.0, "NEG": 0.0, "NEU": 1.0})
NeutralResult ==
    [label |-> "NEU", confidence |-> NeutralConfidence,
     scores |-> [POS |-> 0, NEG |-> 0, NEU |-> One]]

\* the label analyze reports for a raw label: unknown labels pass through
ShortLabel(raw_label) == DictGet(LABEL_MAP, raw_label, raw_label)

\* the label _analyze_long_text counts a raw label under
LongLabel(raw_label) == DictGet(LABEL_MAP, raw_label, "NEU")

\* _estimate_scores: the possible dicts (one per rounding of the share)
EstimateScores(label, confidence) ==
    LET other_labels == LabelSet \ {label}
    IN  { [l \in LabelSet \cup {label} |-> IF l = label THEN confidence ELSE share] :
            share \in Round4(One - confidence, Cardinality(other_labels)) }

\* is the text analysed sentence by sentence?
IsLongText(t) == Len_(t) > max_length * 2

\* every sentence is classified, however short
IsClassifiedAlways(sentence) == TRUE

\* is the sentence classified?
IsClassified(sentence) == Len_(Strip(sentence)) >= MinSentenceLen

\* the sentences of a long text that are passed to the analyzer
ClassifiedSentences(t) == SelectSeq(SplitSentences(t), IsClassified)

RECURSIVE Accumulate(_, _)
\* the loop over the classified sentences: [scores, valid_count] after the
\* analyzer answered outs[1..n]
Accumulate(outs, n) ==
    IF n = 0 THEN [scores |-> [POS |-> 0, NEG |-> 0, NEU |-> 0], valid_count |-> 0]
    ELSE LET acc == Accumulate(outs, n - 1)
             o == outs[n]
         IN  IF o.kind \in {"raise", "empty"} THEN acc
             ELSE [scores |-> [acc.scores EXCEPT ![LongLabel(o.label)] = @ + o.score],
                   valid_count |-> acc.valid_count + 1]

\* max(all_scores, key=all_scores.get): the first key with the largest value
MaxLabel(scores) ==
    LET i == CHOOSE i \in 1..Len(Labels) :
                 /\ \A j \in 1..Len(Labels) : scores[Labels[j]] <= scores[Labels[i]]
                 /\ \A j \in 1..(i - 1) : scores[Labels[j]] < scores[Labels[i]]
    IN  Labels[i]

\* the averaged scores are returned as they are
RenormalizeSkipped(avg) == {avg}

\* the scores returned for the averaged scores avg: divided by their total
\* when it is positive.  The averages are multiples of Sub, and v / total is
\* computed as (v / Sub) / (total / Sub) to stay within TLC's integers.
Renormalize(avg) ==
    LET total == avg.POS + avg.NEG + avg.NEU
    IN  IF total > 0
        THEN { [POS |-> p, NEG |-> n, NEU |-> u] :
                 p \in Round4((avg.POS \div Sub) * One, total \div Sub),
                 n \in Round4((avg.NEG \div Sub) * One, total \div Sub),
                 u \in Round4((avg.NEU \div Sub) * One, total \div Sub) }
        ELSE {avg}

\* _analyze_long_text on the normalized text t: the possible results
AnalyzeLongText(t, outs) ==
    LET acc == Accumulate(outs, Len(ClassifiedSentences(t)))
        averages ==
            { [POS |-> p, NEG |-> n, NEU |-> u] :
                p \in Round4(acc.scores.POS, acc.valid_count),
                n \in Round4(acc.scores.NEG, acc.valid_count),
                u \in Round4(acc.scores.NEU, acc.valid_count) }
    IN  IF acc.valid_count = 0 THEN {NeutralResult}
        ELSE UNION { { [label |-> MaxLabel(avg),
                        confidence |-> avg[MaxLabel(avg)],
                        scores |-> s] : s \in Renormalize(avg) } : avg \in averages }

\* the single call of the short branch: the possible results
AnalyzeShortText(out) ==
    IF out.kind = "empty" THEN {NeutralResult}
    ELSE LET label == ShortLabel(out.label)
         IN  { [label |-> label, confidence |-> c, scores |-> s] :
                 c \in Round4(out.score, 1),
                 s \in EstimateScores(label, out.score) }

\* number of analyzer calls analyze makes on text once the pipeline is loaded
AnalyzerCalls(text) ==
    IF text = << >> \/ Len_(Strip(text)) = 0 THEN 0
    ELSE IF IsLongText(Normalize(text))
         THEN Len(ClassifiedSentences(Normalize(text)))
         ELSE 1

\* analyze lets the error through
OnAnalyzeErrorRaise == [raised |-> TRUE, results |-> {}]

\* what the try block of analyze does when the analyzer raises at its one
\* call, or cannot be loaded: the except clause returns the neutral record
OnAnalyzeError == [raised |-> FALSE, results |-> {NeutralResult}]

\* analyze(text) with the cache m: [raised, results, calls, models];
\* results are the records it may return
Analyze(text, m, env) ==
    IF text = << >> \/ Len_(Strip(text)) = 0
    THEN [raised |-> FALSE, results |-> {NeutralResult}, calls |-> 0, models |-> m]
    ELSE LET load == LoadHandle(m, "sentiment_analyzer", env.load_ok)
             t == Normalize(text)
         IN  IF load.raised
             THEN [raised |-> OnAnalyzeError.raised, results |-> OnAnalyzeError.results,
                   calls |-> 0, models |-> load.models]
             ELSE IF IsLongText(t)
             THEN [raised |-> FALSE, results |-> AnalyzeLongText(t, env.outs),
                   calls |-> Len(ClassifiedSentences(t)), models |-> load.models]
             ELSE IF env.outs[1].kind = "raise"
             THEN [raised |-> OnAnalyzeError.raised, results |-> OnAnalyzeError.results,
                   calls |-> 1, models |-> load.models]
             ELSE [raised |-> FALSE, results |-> AnalyzeShortText(env.outs[1]),
                   calls |-> 1, models |-> load.models]

-----------------------------------------------------------------------------
(* services/summarizer.py.  The environment of one call is [load_ok, gen]: *)
(* whether loading the tokenizer and model succeeds, and what generation   *)
(* and decoding do, [raise, text, closed]: raise, or the decoded text and  *)
(* whether, stripped, it ends with one of '.', 'da', 'yo', '!'.            *)
(* A summary is [kind, text, error]:                                       *)
(*   "placeholder"  "yoyakhal teksteuga eopseumnida." (nothing to          *)
(*                  summarize)                                             *)
(*   "error"        "yoyak saengseong jung oryuga balsaenghaetseumnida:    *)
(*                  <error>" (an error occurred while summarizing)         *)
(*   "text"         the generated summary                                  *)

\* _postprocess
Postprocess(decoded) ==
    LET s == Strip(decoded.text)
    IN  IF s # << >> /\ ~decoded.closed THEN Concat(s, << End(1) >>) ELSE s

\* summarize lets the error e through
OnSummarizeErrorRaise(e, original_length) ==
    [raised |-> TRUE,
     result |-> [summary |-> [kind |-> "error", text |-> << >>, error |-> e],
                 original_length |-> original_length,
                 summary_length |-> 0]]

\* the except clause of summarize: the record returned for the error e
OnSummarizeError(e, original_length) ==
    [raised |-> FALSE,
     result |-> [summary |-> [kind |-> "error", text |-> << >>, error |-> e],
                 original_length |-> original_length,
                 summary_length |-> 0]]

\* only the empty string counts as nothing to summarize
NothingToSummarizeUnstripped(text) == text = << >>

\* not text or len(text.strip()) == 0
NothingToSummarize(text) == text = << >> \/ Len_(Strip(text)) = 0

\* summarize(text, max_length, min_length) with the cache m:
\* [raised, result, generated, models]; generated: model.generate was called
Summarize(text, m, env) ==
    IF NothingToSummarize(text)
    THEN [raised |-> FALSE,
          result |-> [summary |-> [kind |-> "placeholder", text |-> << >>, error |-> ""],
                      original_length |-> 0, summary_length |-> 0],
          generated |-> FALSE, models |-> m]
    ELSE LET original_length == Len_(text)
             load == LoadHandle(m, "summarizer", env.load_ok)
         IN  IF load.raised
             THEN [raised |-> OnSummarizeError("load_error", original_length).raised,
                   result |-> OnSummarizeError("load_error", original_length).result,
                   generated |-> FALSE, models |-> load.models]
             ELSE IF env.gen.raise
             THEN [raised |-> OnSummarizeError("generate_error", original_length).raised,
                   result |-> OnSummarizeError("generate_error", original_length).result,
                   generated |-> TRUE, models |-> load.models]
             ELSE LET s == Postprocess(env.gen)
                  IN  [raised |-> FALSE,
                       result |-> [summary |-> [kind |-> "text", text |-> s, error |-> ""],
                                   original_length |-> original_length,
                                   summary_length |-> Len_(s)],
                       generated |-> TRUE, models |-> load.models]

-----------------------------------------------------------------------------
(* services/keywords.py.  A word is [w, n]: n Hangul syllables, told apart *)
(* from other words of that length by w.  The environment of one call is   *)
(* [load_ok, kb]: whether importing KeyBERT and loading the embedding      *)
(* model succeed, and what extract_keywords does, [raise, cands]: raise,   *)
(* or the list of candidates [keyword, score]; a keyword is [id, n, has_stop, *)
(* digits]: its length, whether it contains a stop word, whether it        *)
(* consists of digits.                                                     *)

Word(w, n) == [w |-> w, n |-> n]

STOPWORDS == {
    Word("itda", 2), Word("hada", 2), Word("doeda", 2), Word("ida", 2),
    Word("anta", 2), Word("eopda", 2), Word("gatda", 2), Word("boda", 2),
    Word("daehan", 2), Word("tonghae", 2), Word("wihae", 2), Word("ttara", 2),
    Word("gwallyeon", 2), Word("daehae", 2), Word("gajang", 2), Word("ttohan", 2),
    Word("geurigo", 3), Word("hajiman", 3), Word("geureona", 3),
    Word("ttaraseo", 3), Word("geuraeseo", 3), Word("ttaemune", 3),
    Word("geoseuro", 3), Word("geosida", 3), Word("geosimyeo", 3),
    Word("sudo", 2), Word("ganeung", 2), Word("inneun", 2), Word("haneun", 2),
    Word("ibeon", 2), Word("jinan", 2), Word("oneul", 2), Word("naeil", 2),
    Word("eoje", 2), Word("olhae", 2), Word("jangnyeon", 2), Word("naenyeon", 2) }

\* words shorter than this are no keywords
MinWordLen == 2

\* re.findall(r'[ga-hih]{2,}', text)
FindWords(text) ==
    LET runs == SelectSeq(text, LAMBDA r : r.k = "ko" /\ r.n >= MinWordLen)
    IN  [i \in 1..Len(runs) |-> Word(runs[i].w, runs[i].n)]

\* every word is counted, the stop words too
CountedAll(words) == words

\* the words counted by the frequency fallback
Counted(words) == SelectSeq(words, LAMBDA x : x \notin STOPWORDS /\ x.n >= MinWordLen)

\* word_freq: the counted words in the order of their first occurrence,
\* each with its number of occurrences
WordFreq(words) ==
    LET c == Counted(words)
        firsts == {i \in 1..Len(c) : \A j \in 1..(i - 1) : c[j] # c[i]}
        idx == SelectSeq([i \in 1..Len(c) |-> i], LAMBDA i : i \in firsts)
    IN  [k \in 1..Len(idx) |->
            [word |-> c[idx[k]],
             freq |-> Cardinality({j \in 1..Len(c) : c[j] = c[idx[k]]})]]

RECURSIVE SortedByFreq(_)
\* sorted(word_freq.items(), key=lambda x: x[1], reverse=True): stable
SortedByFreq(items) ==
    IF items = << >> THEN << >>
    ELSE LET i == CHOOSE i \in 1..Len(items) :
                      /\ \A j \in 1..Len(items) : items[j].freq <= items[i].freq
                      /\ \A j \in 1..(i - 1) : items[j].freq < items[i].freq
         IN  << items[i] >>
             \o SortedByFreq(SubSeq(items, 1, i - 1) \o SubSeq(items, i + 1, Len(items)))

\* the list keeps every element instead of the first k
TakeAll(s, k) == s

\* the first k elements of a list: s[:k]
Take(s, k) == SubSeq(s, 1, IF k < Len(s) THEN k ELSE Len(s))

RECURSIVE Choices(_)
\* the lists that take their i-th element from the i-th set
Choices(sets) ==
    IF sets = << >> THEN {<< >>}
    ELSE {<< x >> \o rest : x \in Head(sets), rest \in Choices(Tail(sets))}

\* _extract_with_frequency: the possible result lists
ExtractWithFrequency(text, top_k) ==
    LET sorted_words == SortedByFreq(WordFreq(FindWords(text)))
        max_freq == IF sorted_words # << >> THEN sorted_words[1].freq ELSE 1
        top == Take(sorted_words, top_k)
    IN  Choices([i \in 1..Len(top) |->
            { [keyword |-> top[i].word, score |-> s] :
                s \in Round4(top[i].freq * One, max_freq) }])

\* _is_valid_keyword
IsValidKeyword(keyword) ==
    keyword.n >= MinWordLen /\ ~keyword.has_stop /\ ~keyword.digits

\* _extract_with_keybert, given the candidates: the possible result lists
ExtractWithKeybert(cands, top_k) ==
    LET valid == Take(SelectSeq(cands, LAMBDA c : IsValidKeyword(c.keyword)), top_k)
    IN  Choices([i \in 1..Len(valid) |->
            { [keyword |-> valid[i].keyword, score |-> s] :
                s \in Round4(valid[i].score, 1) }])

\* extract(text, top_k) with the cache m: [raised, results, method, models]
Extract(text, top_k, m, env) ==
    IF text = << >> \/ Len_(Strip(text)) = 0
    THEN [raised |-> FALSE, results |-> {<< >>}, method |-> << >>, models |-> m]
    ELSE LET load == LoadHandle(m, "embedding_model", env.load_ok)
         IN  IF load.raised \/ env.kb.raise
             THEN [raised |-> FALSE, results |-> ExtractWithFrequency(text, top_k),
                   method |-> << "keybert", "frequency" >>, models |-> load.models]
             ELSE [raised |-> FALSE, results |-> ExtractWithKeybert(env.kb.cands, top_k),
                   method |-> << "keybert" >>, models |-> load.models]

-----------------------------------------------------------------------------
(* Inputs: what the user types, and what the environment answers *)

news_naver_com ==
    << "n", "e", "w", "s", ".", "n", "a", "v", "e", "r", ".", "c", "o", "m" >>
WWW_Daum_net == << "W", "W", "W", ".", "D", "a", "u", "m", ".", "n", "e", "t" >>
v_daum_net == << "v", ".", "d", "a", "u", "m", ".", "n", "e", "t" >>
example_org == << "e", "x", "a", "m", "p", "l", "e", ".", "o", "r", "g" >>

UrlInputs ==
    { [scheme |-> "",      netloc |-> news_naver_com],
      [scheme |-> "https", netloc |-> WWW_Daum_net],
      [scheme |-> "http",  netloc |-> v_daum_net],
      [scheme |-> "http",  netloc |-> example_org],
      [scheme |-> "",      netloc |-> << >>],
      [scheme |-> "https", netloc |-> << >>] }

\* the options of the sidebar's keyword_count selectbox, and those tried
KeywordCountOptions == {3, 5, 7, 10}
KeywordCounts == {k \in KeywordCountOptions : k <= 5}

\* a sentence of a long article, and one too short to be classified
LongSentence == << KoWord("gyeongje", 1100), End(1) >>
ShortSentence == << KoWord("ne", 5), End(1) >>

\* articles of up to MaxSentences sentences, at least one of them long
LongTexts ==
    UNION { { JoinWithSpace(s) :
                s \in { f \in [1..n -> {LongSentence, ShortSentence}] :
                          \E i \in 1..n : f[i] = LongSentence } } :
            n \in 1..MaxSentences }

\* texts at the limits of the validator and of the sentiment branches
ShortTexts ==
    { << >>,
      << Ws(3) >>,
      << Ko(49) >>,
      << Ws(2), Ko(49), Ws(2) >>,
      << Ko(50) >>,
      << Etc(60) >>,
      << Ko(5), Ws(1), Etc(50) >>,
      << Ko(6), Ws(1), Etc(53) >>,
      << Ko(50000) >>,
      << Ko(50001) >>,
      << KoWord("gyeongje", 300), Ws(1), KoWord("itda", 2), Ws(1),
         KoWord("seongjang", 300), Ws(2), KoWord("gyeongje", 300), End(1) >>,
      << Ko(500), Ws(600), Ko(500) >>,
      << Ko(1023), End(1) >> }

Texts == ShortTexts \cup LongTexts

Pages ==
    { [naver |-> Some(<< Ws(2), Ko(600), End(1), Ws(3), Ko(600), End(1), Ws(1) >>),
       daum |-> None, generic |-> None, paras |-> << >>],
      [naver |-> None, daum |-> Some(<< Ws(4) >>), generic |-> Some(<< Ko(60) >>),
       paras |-> << << Ko(70) >> >>],
      [naver |-> None, daum |-> None, generic |-> None,
       paras |-> << << Ko(50) >>, << Ws(1), Ko(51), End(1), Ws(1) >>, << Ko(80) >> >>],
      [naver |-> None, daum |-> None, generic |-> None, paras |-> << << Ko(20) >> >>] }

NoPage == [naver |-> None, daum |-> None, generic |-> None, paras |-> << >>]

NewspaperOutcomes ==
    [error : NewspaperErrors, text : {<< >>}] \cup [error : {""}, text : Texts]
HttpOutcomes ==
    [error : HttpErrors, page : {NoPage}] \cup [error : {""}, page : Pages]

\* steps of the score grid: 0.00004, 1/3, 1
Scores == {(Sub \div 2) - 1, One \div 3, One}
RawLabels == {"positive", "LABEL_0", "LABEL_1", "mixed"}
Raises == [kind |-> "raise", label |-> "", score |-> 0]
EmptyResults == [kind |-> "empty", label |-> "", score |-> 0]
Result(label, score) == [kind |-> "ok", label |-> label, score |-> score]
AnalyzerOutcomes ==
    {Raises, EmptyResults} \cup {Result(l, x) : l \in RawLabels, x \in Scores}

\* the analyzer's answers during a request
RequestOutcomes ==
    {Raises, Result("positive", One), Result("mixed", One \div 3)}

\* the environments of analyze(text) with the cache m: a load can fail only
\* if there is one, and the analyzer answers the calls that are made
SentimentEnvs(text, m, outs) ==
    [load_ok : {TRUE}, outs : [1..AnalyzerCalls(text) -> outs]]
    \cup (IF m["sentiment_analyzer"] = 0 /\ AnalyzerCalls(text) > 0
          THEN {[load_ok |-> FALSE, outs |-> << >>]} ELSE {})

SummarizerEnvs ==
    [load_ok : BOOLEAN,
     gen : {[raise |-> TRUE, text |-> << >>, closed |-> FALSE],
            [raise |-> FALSE, text |-> << Ko(40) >>, closed |-> FALSE],
            [raise |-> FALSE, text |-> << Ws(1), Ko(40), End(1), Ws(1) >>,
             closed |-> TRUE]}]

Candidate(id, n, has_stop, digits, score) ==
    [keyword |-> [id |-> id, n |-> n, has_stop |-> has_stop, digits |-> digits],
     score |-> score]

KeywordEnvs ==
    [load_ok : BOOLEAN,
     kb : {[raise |-> TRUE, cands |-> << >>],
           [raise |-> FALSE, cands |->
           << Candidate("gyeongje", 2, FALSE, FALSE, 70004),
              Candidate("i", 1, FALSE, FALSE, 60000),
              Candidate("ganeungseong", 3, TRUE, FALSE, 50000),
              Candidate("2024", 4, FALSE, TRUE, 40000),
              Candidate("gyeongje seongjang", 5, FALSE, FALSE, 30000) >>]}]

-----------------------------------------------------------------------------
(* app.py: main() and analyze_news() *)

\* "olbareun URL hyeongsigeul imnyeokhaejuseyo." (please enter a well-formed URL)
MsgEnterValidUrl == "enter_well_formed_url"
\* "gisa bonmuneul chuchulhal su eopseumnida." (the article body cannot be
\* extracted)
MsgNoBody == "cannot_extract_article_body"

MLStages == {"summarize", "analyze", "extract"}

Init ==
    /\ pc = "idle"
    /\ url = None
    /\ info = None
    /\ article = None
    /\ summary = None
    /\ sentiment = None
    /\ keywords = None
    /\ outcome = None
    /\ trace = << >>
    /\ models = [h \in Handles |-> 0]
    /\ settings = None
    /\ current_result = None
    /\ analysis_history = << >>
    /\ NEWSPAPER_AVAILABLE \in BOOLEAN
    /\ svc_in = None
    /\ svc_out = None
    /\ model_loader = None
    /\ instances = << >>
    /\ services = {}
    /\ threads = << >>

\* the request ends with outcome o: analyze_news is left and its locals
\* are gone
Ends(o) ==
    /\ pc' = "idle"
    /\ outcome' = Some(o)
    /\ article' = None
    /\ summary' = None
    /\ sentiment' = None
    /\ keywords' = None

\* except Exception as e: render_error(str(e))
Error(msg) == [kind |-> "error", msg |-> msg]

\* main proceeds only for the supported domains
ProceedsIfSupported(r) == r.is_news /\ r.msg.text = "url_supported_site"

\* does main go on to analyze_news after is_news_url answered r?
\* (is_news is assigned and not read)
Proceeds(r) == TRUE

\* main(), lines 165-177: the button is pressed with a non-empty input
Submit(input, keyword_count) ==
    /\ pc = "idle"
    /\ LET u == SanitizeUrl(input)
       IN  /\ url' = Some(u)
           /\ IF ~IsValidUrl(u)
              THEN /\ info' = None
                   /\ outcome' = Some([kind |-> "invalid_url", msg |-> MsgEnterValidUrl])
                   /\ pc' = "idle"
              ELSE /\ info' = Some(IsNewsUrl(u).msg)
                   /\ IF Proceeds(IsNewsUrl(u))
                      THEN outcome' = None /\ pc' = "crawl"
                      ELSE outcome' = Some([kind |-> "rejected",
                                            msg |-> IsNewsUrl(u).msg.text])
                           /\ pc' = "idle"
    /\ settings' = Some([keyword_count |-> keyword_count])
    /\ trace' = << >>
    /\ UNCHANGED << article, summary, sentiment, keywords, models,
                    NEWSPAPER_AVAILABLE, svc_in, svc_out >>
    /\ UNCHANGED loader_vars
    /\ UNCHANGED session_vars

\* analyze_news, line 82: services["crawler"].extract_article(url)
Crawl ==
    /\ pc = "crawl"
    /\ \E np \in NewspaperOutcomes, http \in HttpOutcomes :
        LET r == ExtractArticle(Val(url), NEWSPAPER_AVAILABLE, np, http)
        IN  /\ trace' = trace \o r.calls
            /\ IF r.raised
               THEN Ends(Error(r.error))
               ELSE /\ article' = r.article
                    /\ pc' = "check_body"
                    /\ UNCHANGED << summary, sentiment, keywords, outcome >>
    /\ UNCHANGED << url, info, models, settings, NEWSPAPER_AVAILABLE, svc_in, svc_out >>
    /\ UNCHANGED loader_vars
    /\ UNCHANGED session_vars

\* the body check lets every article through
EmptyBodyUnchecked(a) == FALSE

\* not article.content
EmptyBody(a) == a.content = << >>

\* analyze_news, lines 84-88: if not article.content: raise ValueError(...)
CheckBody ==
    /\ pc = "check_body"
    /\ IF EmptyBody(Val(article))
       THEN Ends(Error(MsgNoBody))
       ELSE /\ pc' = "validate"
            /\ UNCHANGED << article, summary, sentiment, keywords, outcome >>
    /\ UNCHANGED << url, info, trace, models, settings, NEWSPAPER_AVAILABLE,
                    svc_in, svc_out >>
    /\ UNCHANGED loader_vars
    /\ UNCHANGED session_vars

\* the verdict is not looked at
RejectedNever(v) == FALSE

\* if not is_valid
Rejected(v) == ~v.ok

\* the summary is skipped
AfterValidationSkips == "sentiment"

\* the stage that follows the validation of the text (line 95)
AfterValidation == "summarize"

\* analyze_news, lines 90-93
Validate ==
    /\ pc = "validate"
    /\ LET v == IsValidArticleText(Val(article).content)
       IN  IF Rejected(v)
           THEN Ends(Error(v.msg))
           ELSE /\ pc' = AfterValidation
                /\ UNCHANGED << article, summary, sentiment, keywords, outcome >>
    /\ trace' = Append(trace, "is_valid_article_text")
    /\ UNCHANGED << url, info, models, settings, NEWSPAPER_AVAILABLE, svc_in, svc_out >>
    /\ UNCHANGED loader_vars
    /\ UNCHANGED session_vars

\* analyze_news, lines 95-104
SummarizeStage ==
    /\ pc = "summarize"
    /\ \E env \in SummarizerEnvs :
        LET r == Summarize(Val(article).content, models, env)
        IN  /\ models' = r.models
            /\ IF r.raised
               THEN Ends(Error("summarize_raised"))
               ELSE /\ summary' = Some(r.result)
                    /\ pc' = "sentiment"
                    /\ UNCHANGED << article, sentiment, keywords, outcome >>
    /\ trace' = Append(trace, "summarize")
    /\ UNCHANGED << url, info, settings, NEWSPAPER_AVAILABLE, svc_in, svc_out >>
    /\ UNCHANGED loader_vars
    /\ UNCHANGED session_vars

\* analyze_news, lines 106-111
SentimentStage ==
    /\ pc = "sentiment"
    /\ \E env \in SentimentEnvs(Val(article).content, models, RequestOutcomes) :
        LET r == Analyze(Val(article).content, models, env)
        IN  /\ models' = r.models
            /\ IF r.raised
               THEN Ends(Error("analyze_raised"))
               ELSE /\ \E res \in r.results : sentiment' = Some(res)
                    /\ pc' = "keywords"
                    /\ UNCHANGED << article, summary, keywords, outcome >>
    /\ trace' = Append(trace, "analyze")
    /\ UNCHANGED << url, info, settings, NEWSPAPER_AVAILABLE, svc_in, svc_out >>
    /\ UNCHANGED loader_vars
    /\ UNCHANGED session_vars

\* the methods extract tried, in order, with a mark after one that raised
\* (the second is tried only when the first raised)
MethodCalls(method) ==
    IF Len(method) = 2 THEN << method[1], "raised", method[2] >> ELSE method

\* analyze_news, lines 113-128: the last stage, and the AnalysisResult
KeywordStage ==
    /\ pc = "keywords"
    /\ \E env \in KeywordEnvs :
        LET r == Extract(Val(article).content, Val(settings).keyword_count, models, env)
        IN  /\ models' = r.models
            /\ IF r.raised
               THEN Ends(Error("extract_raised"))
               ELSE /\ \E res \in r.results : keywords' = Some(res)
                    /\ pc' = "done"
                    /\ UNCHANGED << article, summary, sentiment, outcome >>
            /\ trace' = trace \o << "extract" >> \o MethodCalls(r.method)
    /\ UNCHANGED << url, info, settings, NEWSPAPER_AVAILABLE, svc_in, svc_out >>
    /\ UNCHANGED loader_vars
    /\ UNCHANGED session_vars

\* main(), lines 177-189: analyze_news returned the AnalysisResult (what
\* main() then writes to the session state is followed in SessionSpec,
\* where a whole request is one step)
Finish ==
    /\ pc = "done"
    /\ Ends([kind |-> "success", msg |-> ""])
    /\ UNCHANGED << url, info, trace, models, settings, NEWSPAPER_AVAILABLE,
                    svc_in, svc_out >>
    /\ UNCHANGED loader_vars
    /\ UNCHANGED session_vars

Next ==
    \/ \E input \in UrlInputs, k \in KeywordCounts : Submit(input, k)
    \/ Crawl
    \/ CheckBody
    \/ Validate
    \/ SummarizeStage
    \/ SentimentStage
    \/ KeywordStage
    \/ Finish

Spec == Init /\ [][Next]_vars

-----------------------------------------------------------------------------
(* A direct call of SentimentService.analyze(text): svc_in holds the text  *)
(* and the environment, svc_out what the call returned.                    *)

SentInit ==
    /\ pc = "idle"
    /\ url = None
    /\ info = None
    /\ article = None
    /\ summary = None
    /\ sentiment = None
    /\ keywords = None
    /\ outcome = None
    /\ trace = << >>
    /\ models \in [Handles -> {0, 1}]
    /\ models["summarizer"] = 0
    /\ models["embedding_model"] = 0
    /\ settings = None
    /\ current_result = None
    /\ analysis_history = << >>
    /\ NEWSPAPER_AVAILABLE = TRUE
    /\ \E t \in Texts : \E env \in SentimentEnvs(t, models, AnalyzerOutcomes) :
           svc_in = Some([text |-> t, env |-> env])
    /\ svc_out = None
    /\ model_loader = None
    /\ instances = << >>
    /\ services = {}
    /\ threads = << >>

\* sentiment = SentimentService().analyze(text)
SentAnalyze ==
    /\ svc_in # None
    /\ svc_out = None
    /\ LET r == Analyze(Val(svc_in).text, models, Val(svc_in).env)
       IN  /\ models' = r.models
           /\ IF r.raised
              THEN svc_out' = Some([raised |-> TRUE, result |-> None, calls |-> r.calls])
              ELSE \E res \in r.results :
                     svc_out' = Some([raised |-> FALSE, result |-> Some(res),
                                      calls |-> r.calls])
    /\ UNCHANGED << pc, url, info, article, summary, sentiment, keywords, outcome,
                    trace, settings, NEWSPAPER_AVAILABLE, svc_in >>
    /\ UNCHANGED loader_vars
    /\ UNCHANGED session_vars

SentNext == SentAnalyze

SentSpec == SentInit /\ [][SentNext]_vars

-----------------------------------------------------------------------------
(* Properties of a request (specification Spec) *)

Has(tr, call) == \E i \in 1..Len(tr) : tr[i] = call
NoMLStage(tr) == \A i \in 1..Len(tr) : tr[i] \notin MLStages
\* the stages of analyze_news after the extraction, in the order called
StageCalls(tr) ==
    SelectSeq(tr, LAMBDA c : c \in MLStages \cup {"is_valid_article_text"})
EndsWith(tr, tail) ==
    Len(tr) >= Len(tail) /\ SubSeq(tr, Len(tr) - Len(tail) + 1, Len(tr)) = tail

\* the step taken from line 91 with a body the validator rejects
RejectionStep ==
    (pc = "validate" /\ ~IsValidArticleText(Val(article).content).ok)
    => /\ pc' = "idle"
       /\ outcome' = Some(Error(IsValidArticleText(Val(article).content).msg))
       /\ NoMLStage(trace')

\* C1: whenever is_valid_article_text rejects the extracted body, the
\* request ends with the validator's message and no ML stage has been or
\* is run for it; a text that reaches an ML stage was accepted.
C1_RejectedTextEndsRequest ==
    /\ [](pc \in {"summarize", "sentiment", "keywords", "done"}
            => IsValidArticleText(Val(article).content).ok)
    /\ [][RejectionStep]_vars
C1_Witness ==
    /\ pc = "idle"
    /\ outcome = Some(Error(MsgNoKorean))
    /\ EndsWith(trace, << "is_valid_article_text" >>)

\* C2 as stated: an empty extracted body ends the request with the
\* validation message that names the minimum length, and no ML stage runs.
C2_Original ==
    [][(pc = "check_body" /\ Val(article).content = << >>)
         => (outcome' = Some(Error(MsgTooShort)) /\ NoMLStage(trace'))]_vars
\* C2 amended: an empty extracted body ends the request with the message
\* that the article body cannot be extracted, before the text validator is
\* called, and no ML stage runs.
C2_EmptyBodyEndsRequest ==
    [][(pc = "check_body" /\ Val(article).content = << >>)
         => /\ pc' = "idle"
            /\ outcome' = Some(Error(MsgNoBody))
            /\ NoMLStage(trace')
            /\ ~Has(trace', "is_valid_article_text")]_vars
C2_Witness ==
    /\ pc = "idle"
    /\ outcome = Some(Error(MsgNoBody))
    /\ ~Has(trace, "is_valid_article_text")

\* the URL of the request is well-formed and its domain matches no entry
\* of SUPPORTED_NEWS_DOMAINS
UnsupportedUrl ==
    url # None /\ IsValidUrl(Val(url)) /\ SupportedHits(Val(url)) = {}

\* C3 as stated: a well-formed URL with an unsupported domain is rejected,
\* and neither extraction nor an ML stage runs for it.
C3_Original ==
    UnsupportedUrl
    => /\ pc = "idle"
       /\ outcome # None
       /\ Val(outcome).kind \in {"invalid_url", "rejected"}
       /\ trace = << >>
\* C3 amended: a well-formed URL with an unsupported domain is not rejected:
\* is_news_url answers (True, "taken as a news URL, crawling will be
\* tried"), the message is shown and the request goes on to extraction.
C3_UnsupportedDomainIsCrawled ==
    UnsupportedUrl
    => /\ IsNewsUrl(Val(url)) = [is_news |-> TRUE, msg |-> MsgTakenAsNews]
       /\ info = Some(MsgTakenAsNews)
       /\ pc = "crawl" \/ Has(trace, "newspaper") \/ Has(trace, "beautifulsoup")
       /\ outcome # None => Val(outcome).kind \in {"error", "success"}
C3_Witness ==
    UnsupportedUrl /\ pc = "done" /\ Has(trace, "extract")

\* C4 as stated: the primary strategy's result is returned only when it
\* recovered text (an empty result leads to the fallback).
C4_Original ==
    (pc = "check_body" /\ ~Has(trace, "beautifulsoup"))
    => Val(article).content # << >>
\* C4 amended: the fallback runs exactly when newspaper is unavailable or
\* the primary strategy raised (network or parse error); a primary result
\* without text raises nothing and is returned as it is.
C4_FallbackExactlyOnException ==
    trace # << >>
    => /\ NEWSPAPER_AVAILABLE <=> trace[1] = "newspaper"
       /\ Has(trace, "beautifulsoup")
            <=> (~NEWSPAPER_AVAILABLE
                 \/ (Len(trace) >= 2 /\ trace[2] = "raised"))
C4_Witness ==
    /\ pc = "check_body"
    /\ trace = << "newspaper", "raised", "beautifulsoup" >>
    /\ Val(article).content # << >>

\* C5 as stated: extract_article never returns an article with an empty body.
C5_Original == pc = "check_body" => Val(article).content # << >>
\* C5 amended: extract_article raises exactly when the fallback's fetch
\* fails (request error or HTTP error status); when the strategy that ran
\* recovers no text it returns an article with an empty body, which
\* analyze_news then turns into the "cannot extract the body" error.
C5_RaisesExactlyOnFetchFailure ==
    /\ EndsWith(trace, << "raised" >>)
         <=> (outcome # None /\ Val(outcome).kind = "error"
              /\ Val(outcome).msg \in HttpErrors)
    /\ EndsWith(trace, << "raised" >>)
         => pc = "idle" /\ EndsWith(trace, << "beautifulsoup", "raised" >>)
    /\ (outcome # None /\ Val(outcome).msg = MsgNoBody)
         => (trace \in {<< "newspaper" >>, << "beautifulsoup" >>,
                        << "newspaper", "raised", "beautifulsoup" >>})
C5_Witness ==
    /\ pc = "check_body"
    /\ EndsWith(trace, << "beautifulsoup" >>)
    /\ Val(article).content = << >>

\* C6: once the text passed validation no model failure ends the request
\* with an error: a failed summarization yields a record of summary_length
\* 0 that carries the error, the sentiment and keyword stages run after
\* it, and analyze_news returns all three results.
C6_ModelFailuresDoNotAbort ==
    /\ (outcome # None /\ Val(outcome).kind = "error") => NoMLStage(trace)
    /\ (summary # None /\ Val(summary).summary.kind = "error")
         => /\ Val(summary).summary_length = 0
            /\ Val(summary).summary.error \in {"load_error", "generate_error"}
            /\ pc \in {"sentiment", "keywords", "done"}
    /\ pc = "done"
         => /\ summary # None /\ sentiment # None /\ keywords # None
            /\ StageCalls(trace) = << "is_valid_article_text", "summarize",
                                     "analyze", "extract" >>
C6_Witness ==
    /\ pc = "done"
    /\ Val(summary).summary.kind = "error"
    /\ Val(summary).summary.error = "generate_error"
    /\ Val(sentiment) = NeutralResult
    /\ Len(Val(keywords)) > 0

-----------------------------------------------------------------------------
(* Properties of SentimentService.analyze (specification SentSpec) *)

\* the call has returned a record
Returned == svc_out # None /\ ~Val(svc_out).raised
SentText == Val(svc_in).text
SentEnv == Val(svc_in).env
SentResult == Val(Val(svc_out).result)

\* the text is empty or consists of whitespace
Blank(t) == t = << >> \/ Len_(Strip(t)) = 0

\* the model raises whenever it is used: at every call of the analyzer,
\* or already when it is loaded
ModelAlwaysRaises ==
    \A i \in 1..Len(SentEnv.outs) : SentEnv.outs[i].kind = "raise"

\* C7: if the sentiment model raises on every call, analyze returns for
\* every non-empty text, short or long, exactly the record (NEU, 0.0,
\* {POS: 0.0, NEG: 0.0, NEU: 1.0}), and no exception reaches the caller.
C7_FailingModelGivesNeutral ==
    (svc_out # None /\ SentText # << >> /\ ModelAlwaysRaises)
    => /\ ~Val(svc_out).raised
       /\ SentResult = [label |-> "NEU", confidence |-> 0,
                        scores |-> [POS |-> 0, NEG |-> 0, NEU |-> One]]
C7_Witness ==
    /\ Returned
    /\ IsLongText(Normalize(SentText))
    /\ Val(svc_out).calls >= 2
    /\ ModelAlwaysRaises

\* C8 as stated: for empty or whitespace-only input analyze returns the
\* neutral label with confidence 1.0, without a model call or an exception.
C8_Original ==
    (svc_out # None /\ Blank(SentText))
    => /\ Returned
       /\ Val(svc_out).calls = 0
       /\ SentResult.label = "NEU"
       /\ SentResult.confidence = One
\* C8 amended: for empty or whitespace-only input analyze returns the
\* neutral label with confidence 0.0 and the scores {POS: 0.0, NEG: 0.0,
\* NEU: 1.0}, without calling the model and without raising.
C8_BlankInputGivesNeutralZero ==
    (svc_out # None /\ Blank(SentText))
    => /\ Returned
       /\ Val(svc_out).calls = 0
       /\ SentResult = [label |-> "NEU", confidence |-> 0,
                        scores |-> [POS |-> 0, NEG |-> 0, NEU |-> One]]
C8_Witness ==
    Returned /\ SentText = << Ws(3) >> /\ models["sentiment_analyzer"] = 0

\* C9: every record analyze returns has one of the three labels and a
\* scores mapping with exactly the three label keys, whatever raw label
\* the model emits.
C9_LabelAmongThree ==
    Returned
    => /\ SentResult.label \in {"POS", "NEG", "NEU"}
       /\ DOMAIN SentResult.scores = {"POS", "NEG", "NEU"}

Sum3(scores) == scores["POS"] + scores["NEG"] + scores["NEU"]
Abs(x) == IF x < 0 THEN -x ELSE x
\* three roundings to the 4th decimal, each off by at most half a unit
SumTolerance == (3 * Sub) \div 2

\* the long branch ran and classified at least one sentence
LongClassified ==
    /\ ~Blank(SentText)
    /\ IsLongText(Normalize(SentText))
    /\ \E i \in 1..Len(SentEnv.outs) : SentEnv.outs[i].kind = "ok"

\* every averaged score is at most 0.00005, so that it may round to 0.0
AveragesVanish ==
    LET acc == Accumulate(SentEnv.outs, Len(SentEnv.outs))
    IN  \A l \in LabelSet : 2 * acc.scores[l] <= acc.valid_count * Sub

\* C10 as stated: the returned scores lie in [0,1], and in the long branch
\* with a classified sentence the three scores sum to 1 up to the rounding.
C10_Original ==
    (Returned /\ ~Blank(SentText))
    => /\ \A l \in DOMAIN SentResult.scores :
              0 <= SentResult.scores[l] /\ SentResult.scores[l] <= One
       /\ LongClassified => Abs(Sum3(SentResult.scores) - One) <= SumTolerance
\* C10 amended: the returned scores lie in [0,1]; in the long branch with a
\* classified sentence the three scores sum to 1 up to the rounding unless
\* every averaged score rounds to 0.0000 (each at most 0.00005): then the
\* total is 0, nothing is renormalized and the three scores are all 0.0.
C10_ScoresInRangeAndNormalized ==
    (Returned /\ ~Blank(SentText))
    => /\ \A l \in DOMAIN SentResult.scores :
              0 <= SentResult.scores[l] /\ SentResult.scores[l] <= One
       /\ LongClassified
            => \/ Abs(Sum3(SentResult.scores) - One) <= SumTolerance
               \/ /\ AveragesVanish
                  /\ SentResult.scores = [POS |-> 0, NEG |-> 0, NEU |-> 0]
C10_Witness ==
    /\ Returned
    /\ LongClassified
    /\ SentResult.scores["POS"] > 0
    /\ SentResult.scores["NEG"] > 0
    /\ SentResult.scores["NEU"] > 0
    /\ Sum3(SentResult.scores) # One

-----------------------------------------------------------------------------
(* A direct call of KeywordService.extract(text, top_k): svc_in holds the  *)
(* arguments and the environment, svc_out what the call returned.          *)

\* the sub-lists of a list, in its order
SubLists(base) ==
    { LET idx == SelectSeq([i \in 1..Len(base) |-> i], LAMBDA i : i \in S)
      IN  [k \in 1..Len(idx) |-> base[idx[k]]] : S \in SUBSET (1..Len(base)) }

\* what kw_model.extract_keywords may return: KeyBERT's MMR selection
\* gives distinct phrases of the document, sorted by descending
\* similarity; some are too short, contain a stop word or are a number
KeybertCandidates ==
    SubLists(<< Candidate("gyeongje", 2, FALSE, FALSE, 70004),
                Candidate("i", 1, FALSE, FALSE, 60000),
                Candidate("gyeongje seongjang", 5, FALSE, FALSE, 60000),
                Candidate("ganeungseong", 3, TRUE, FALSE, 50000),
                Candidate("2024", 4, FALSE, TRUE, 40000),
                Candidate("sijang", 2, FALSE, FALSE, 40000),
                Candidate("geumri", 2, FALSE, FALSE, 30001),
                Candidate("suchul", 2, FALSE, FALSE, 20000),
                Candidate("hwanyul", 2, FALSE, FALSE, 10000) >>)

\* the environments of extract(text, top_k) with the cache m: a load can
\* fail only if there is one
KeywordCallEnvs(m) ==
    LET kbs == {[raise |-> TRUE, cands |-> << >>]}
               \cup {[raise |-> FALSE, cands |-> c] : c \in KeybertCandidates}
    IN  [load_ok : {TRUE}, kb : kbs]
        \cup (IF m["embedding_model"] = 0
              THEN [load_ok : {FALSE}, kb : {[raise |-> TRUE, cands |-> << >>]}]
              ELSE {})

\* texts for the frequency count: words that repeat, a stop word that is
\* the most frequent word, a word of one syllable, more words than top_k
KeywordTexts ==
    { << >>,
      << Ws(3) >>,
      << KoWord("gyeongje", 2), Ws(1), KoWord("seongjang", 2), Ws(1),
         KoWord("gyeongje", 2), Ws(1), KoWord("itda", 2), Ws(1),
         KoWord("gyeongje", 2), Ws(1), KoWord("sijang", 2), Ws(1),
         KoWord("itda", 2), Ws(1), KoWord("itda", 2), Ws(1),
         KoWord("itda", 2), Ws(1), KoWord("sijang", 2), Ws(1),
         KoWord("geumri", 2), Ws(1), KoWord("i", 1), End(1) >>,
      << KoWord("itda", 2), Ws(1), KoWord("hada", 2), End(1) >>,
      << KoWord("gyeongje", 2), End(1) >>,
      << KoWord("gyeongje", 2), Ws(1), KoWord("seongjang", 2), Ws(1),
         KoWord("sijang", 2), Ws(1), KoWord("geumri", 2), Ws(1),
         KoWord("suchul", 2), Ws(1), KoWord("hwanyul", 2), Ws(1),
         KoWord("seongjang", 2), Ws(1), KoWord("sijang", 2), End(1) >>,
      << Etc(20), Ws(1), KoWord("i", 1), End(1) >> }

KwInit ==
    /\ pc = "idle"
    /\ url = None
    /\ info = None
    /\ article = None
    /\ summary = None
    /\ sentiment = None
    /\ keywords = None
    /\ outcome = None
    /\ trace = << >>
    /\ models \in [Handles -> {0, 1}]
    /\ models["summarizer"] = 0
    /\ models["sentiment_analyzer"] = 0
    /\ settings = None
    /\ current_result = None
    /\ analysis_history = << >>
    /\ NEWSPAPER_AVAILABLE = TRUE
    /\ \E t \in KeywordTexts, k \in KeywordCounts, env \in KeywordCallEnvs(models) :
           svc_in = Some([text |-> t, top_k |-> k, env |-> env])
    /\ svc_out = None
    /\ model_loader = None
    /\ instances = << >>
    /\ services = {}
    /\ threads = << >>

\* keywords = KeywordService().extract(text, top_k)
KwExtract ==
    /\ svc_in # None
    /\ svc_out = None
    /\ LET r == Extract(Val(svc_in).text, Val(svc_in).top_k, models, Val(svc_in).env)
       IN  /\ models' = r.models
           /\ \E res \in r.results :
                svc_out' = Some([raised |-> r.raised, result |-> res,
                                 method |-> r.method])
    /\ UNCHANGED << pc, url, info, article, summary, sentiment, keywords, outcome,
                    trace, settings, NEWSPAPER_AVAILABLE, svc_in >>
    /\ UNCHANGED loader_vars
    /\ UNCHANGED session_vars

KwNext == KwExtract

KwSpec == KwInit /\ [][KwNext]_vars

-----------------------------------------------------------------------------
(* Properties of KeywordService.extract (specification KwSpec) *)

KwText == Val(svc_in).text
KwTopK == Val(svc_in).top_k
KwEnv == Val(svc_in).env
KwResult == Val(svc_out).result

PrimaryRaised == ~KwEnv.load_ok \/ KwEnv.kb.raise
FallbackRan == Has(Val(svc_out).method, "frequency")

\* the number of times the word stands in the text
Occurrences(text, word) ==
    Cardinality({i \in 1..Len(text) :
                    text[i].k = "ko" /\ text[i].w = word.w /\ text[i].n = word.n})
\* the words of 2 or more syllables that are no stop words
CountedWords(text) ==
    {Word(text[i].w, text[i].n) :
        i \in {j \in 1..Len(text) : text[j].k = "ko" /\ text[j].n >= 2}} \ STOPWORDS
MaxOccurrences(text) ==
    CHOOSE n \in {Occurrences(text, w) : w \in CountedWords(text)} :
        \A w \in CountedWords(text) : Occurrences(text, w) <= n

\* C12: the frequency fallback runs exactly when the primary method
\* raised; its result holds no stop word, each score is the word's
\* frequency divided by the greatest frequency of a counted word (kept to
\* 4 decimals), and the first entry of a non-empty result scores 1.0.
C12_FrequencyFallback ==
    svc_out # None
    => /\ FallbackRan <=> (~Blank(KwText) /\ PrimaryRaised)
       /\ FallbackRan =>
            /\ \A i \in 1..Len(KwResult) :
                 /\ KwResult[i].keyword \notin STOPWORDS
                 /\ KwResult[i].keyword \in CountedWords(KwText)
                 /\ 2 * Abs(KwResult[i].score * MaxOccurrences(KwText)
                            - Occurrences(KwText, KwResult[i].keyword) * One)
                      <= MaxOccurrences(KwText) * Sub
            /\ KwResult # << >> => KwResult[1].score = One
C12_Witness ==
    /\ svc_out # None
    /\ FallbackRan
    /\ Len(KwResult) >= 3
    /\ KwResult[2].score < One
    /\ KwResult[3].score < KwResult[2].score
    /\ \E w \in STOPWORDS : Occurrences(KwText, w) > MaxOccurrences(KwText)

-----------------------------------------------------------------------------
(* models/model_loader.py, statement by statement.  A thread constructs    *)
(* services (each calls get_model_loader() in its __init__) and uses them  *)
(* (each use reads one property of the service's ModelLoader).  An         *)
(* instance is its cache: handle -> whether the cached value is set.       *)
(* models[h] counts the loads of model h in the process.  A thread is      *)
(* [pc, kind, loader, result, ops]: the service it constructs or uses,     *)
(* the ModelLoader it reads, what its last operation did, and the number   *)
(* of operations it still starts.                                          *)

\* the operations the thread of a single-threaded process starts, and
\* those each of two concurrent threads starts
MaxOps == 4
RaceOps == 2

ServiceKinds == {"summarizer", "sentiment", "keywords"}

\* the property each service reads: self.model_loader.<handle>
HandleOf ==
    [summarizer |-> "summarizer", sentiment |-> "sentiment_analyzer",
     keywords |-> "embedding_model"]

\* ModelLoader.__init__: nothing is cached
NewInstance == [h \in Handles |-> FALSE]

IdleThread(ops) == [pc |-> "idle", kind |-> "", loader |-> 0, result |-> "", ops |-> ops]

\* the loaded model is not kept
StoreNothing(cache, h) == cache

\* self._summarizer = (tokenizer, model), and the like
StoreHandle(cache, h) == [cache EXCEPT ![h] = TRUE]

\* the handle is looked at again before the load, as under a lock
RetestsHandleLocked == TRUE

\* between the test "is None" and the store, is the cached value looked
\* at again?  (it is not: the test is made once)
RetestsHandle == FALSE

\* the variables of the pipeline, which the loader's statements leave alone
pipeline_vars ==
    << pc, url, info, article, summary, sentiment, keywords, outcome, trace,
       settings, NEWSPAPER_AVAILABLE, svc_in, svc_out >>

\* get_model_loader(), line 88: if _model_loader is None
GetModelLoader(t, k) ==
    /\ threads[t].pc = "idle"
    /\ threads[t].ops > 0
    /\ threads' = [threads EXCEPT ![t] =
            [pc |-> IF model_loader = None THEN "construct" ELSE "return_loader",
             kind |-> k, loader |-> 0, result |-> "", ops |-> @.ops - 1]]
    /\ UNCHANGED << model_loader, instances, services, models >>
    /\ UNCHANGED pipeline_vars
    /\ UNCHANGED session_vars

\* get_model_loader(), line 89: _model_loader = ModelLoader()
ConstructLoader(t) ==
    /\ threads[t].pc = "construct"
    /\ IF RetestsHandle /\ model_loader # None
       THEN UNCHANGED << instances, model_loader >>
       ELSE /\ instances' = Append(instances, NewInstance)
            /\ model_loader' = Some(Len(instances) + 1)
    /\ threads' = [threads EXCEPT ![t].pc = "return_loader"]
    /\ UNCHANGED << services, models >>
    /\ UNCHANGED pipeline_vars
    /\ UNCHANGED session_vars

\* get_model_loader(), line 90: return _model_loader; the service keeps it
\* as self.model_loader
ReturnLoader(t) ==
    /\ threads[t].pc = "return_loader"
    /\ services' = services \cup {[kind |-> threads[t].kind, loader |-> Val(model_loader)]}
    /\ threads' = [threads EXCEPT ![t].pc = "idle", ![t].loader = Val(model_loader),
                                  ![t].result = "service"]
    /\ UNCHANGED << model_loader, instances, models >>
    /\ UNCHANGED pipeline_vars
    /\ UNCHANGED session_vars

\* the property of a service's ModelLoader, first line: if self._x is None;
\* a cached value is returned at once
AccessHandle(t, s) ==
    /\ threads[t].pc = "idle"
    /\ threads[t].ops > 0
    /\ s \in services
    /\ threads' = [threads EXCEPT ![t] =
            [pc |-> IF instances[s.loader][HandleOf[s.kind]] THEN "idle" ELSE "load",
             kind |-> s.kind, loader |-> s.loader,
             result |-> IF instances[s.loader][HandleOf[s.kind]] THEN "cached" ELSE "",
             ops |-> @.ops - 1]]
    /\ UNCHANGED << model_loader, instances, services, models >>
    /\ UNCHANGED pipeline_vars
    /\ UNCHANGED session_vars

\* the property, the lines after the test: the model is loaded and stored
\* and returned, or the load raises and nothing is stored
LoadModel(t, ok) ==
    /\ threads[t].pc = "load"
    /\ LET h == HandleOf[threads[t].kind]
           i == threads[t].loader
       IN  IF RetestsHandle /\ instances[i][h]
           THEN /\ threads' = [threads EXCEPT ![t].pc = "idle", ![t].result = "cached"]
                /\ UNCHANGED << instances, models >>
           ELSE IF ok
           THEN /\ models' = [models EXCEPT ![h] = @ + 1]
                /\ instances' = [instances EXCEPT ![i] = StoreHandle(@, h)]
                /\ threads' = [threads EXCEPT ![t].pc = "idle", ![t].result = "loaded"]
           ELSE /\ threads' = [threads EXCEPT ![t].pc = "idle", ![t].result = "raised"]
                /\ UNCHANGED << instances, models >>
    /\ UNCHANGED << model_loader, services >>
    /\ UNCHANGED pipeline_vars
    /\ UNCHANGED session_vars

\* a process with n threads, before the first call of get_model_loader
LoaderInitWith(n, ops) ==
    /\ pc = "idle"
    /\ url = None
    /\ info = None
    /\ article = None
    /\ summary = None
    /\ sentiment = None
    /\ keywords = None
    /\ outcome = None
    /\ trace = << >>
    /\ models = [h \in Handles |-> 0]
    /\ settings = None
    /\ current_result = None
    /\ analysis_history = << >>
    /\ NEWSPAPER_AVAILABLE = TRUE
    /\ svc_in = None
    /\ svc_out = None
    /\ model_loader = None
    /\ instances = << >>
    /\ services = {}
    /\ threads = [t \in 1..n |-> IdleThread(ops)]

LoaderNext ==
    \/ \E t \in DOMAIN threads, k \in ServiceKinds : GetModelLoader(t, k)
    \/ \E t \in DOMAIN threads : ConstructLoader(t)
    \/ \E t \in DOMAIN threads : ReturnLoader(t)
    \/ \E t \in DOMAIN threads, s \in services : AccessHandle(t, s)
    \/ \E t \in DOMAIN threads, ok \in BOOLEAN : LoadModel(t, ok)

\* a single-threaded process
LoaderInit == LoaderInitWith(1, MaxOps)
LoaderSpec == LoaderInit /\ [][LoaderNext]_vars

\* two requests served by two threads of one process
RaceInit == LoaderInitWith(2, RaceOps)
RaceSpec == RaceInit /\ [][LoaderNext]_vars

-----------------------------------------------------------------------------
(* Properties of the model loader (specifications LoaderSpec, RaceSpec) *)

\* C13: in a single-threaded process, over any sequence of service
\* constructions and handle accesses, each of the three models is loaded
\* at most once, one ModelLoader is constructed at most, and every
\* service holds that one ModelLoader, the singleton.
C13_LoadedAtMostOnce ==
    /\ \A h \in Handles : models[h] <= 1
    /\ Len(instances) <= 1
    /\ \A s \in services : model_loader = Some(s.loader)
    /\ \A h \in Handles :
         models[h] = 1 <=> (instances # << >> /\ instances[1][h])
\* two services exist, and a second access found the handle cached
C13_Witness ==
    /\ Len(threads) = 1
    /\ Cardinality(services) >= 2
    /\ threads[1].result = "cached"
    /\ models[HandleOf[threads[1].kind]] = 1

\* a step in which a thread that found the cached value None goes on:
\* it constructs, or loads, whatever was stored since its test
UnguardedStep ==
    \A t \in DOMAIN threads :
        /\ (threads[t].pc = "construct" /\ threads'[t].pc = "return_loader")
             => Len(instances') = Len(instances) + 1
        /\ (threads[t].pc = "load" /\ threads'[t].pc = "idle"
                /\ threads'[t].result # "raised")
             => /\ threads'[t].result = "loaded"
                /\ models'[HandleOf[threads[t].kind]]
                     = models[HandleOf[threads[t].kind]] + 1

\* C14: first use is unguarded.  A thread that tested the cached value
\* (the handle, or the singleton) for None constructs or loads it when it
\* goes on, even if another thread has stored it meanwhile; so with two
\* threads that both test before either stores, the model or the
\* ModelLoader is made twice, and never more often than there are threads.
C14_FirstUseIsUnguarded ==
    /\ [][UnguardedStep]_vars
    /\ [](/\ Len(instances) <= Len(threads)
          /\ \A h \in Handles : models[h] <= Len(threads) * Len(instances))
\* both threads tested the same handle of the one ModelLoader before
\* either stored it, and both loaded the model
C14_Witness ==
    /\ Len(threads) = 2
    /\ Len(instances) = 1
    /\ threads[1].result = "loaded"
    /\ threads[2].result = "loaded"
    /\ threads[1].kind = threads[2].kind
    /\ models[HandleOf[threads[1].kind]] = 2

-----------------------------------------------------------------------------
(* A direct call of TextValidator.is_valid_article_text(text) *)

\* lengths on both sides of the two limits
ValidatorLengths == {1, 10, 49, 50, 51, 1000, 49999, 50000, 50001, 60000}

\* the text between the surrounding whitespace: Hangul only, or a little
\* Hangul (about a tenth) before other characters
ValidatorCores ==
    { << Ko(n) >> : n \in ValidatorLengths }
    \cup UNION { { << Ko(a), Etc(n - a) >> :
                     a \in {b \in ((n \div 10) - 1)..((n \div 10) + 1) :
                              b >= 1 /\ b < n} } :
                   n \in ValidatorLengths \ {1} }

ValidatorTexts ==
    { << >>, << Ws(3) >> }
    \cup { (IF l > 0 THEN << Ws(l) >> ELSE << >>) \o core
           \o (IF r > 0 THEN << Ws(r) >> ELSE << >>) :
             l \in {0, 2}, r \in {0, 3}, core \in ValidatorCores }

ValInit ==
    /\ pc = "idle"
    /\ url = None
    /\ info = None
    /\ article = None
    /\ summary = None
    /\ sentiment = None
    /\ keywords = None
    /\ outcome = None
    /\ trace = << >>
    /\ models = [h \in Handles |-> 0]
    /\ settings = None
    /\ current_result = None
    /\ analysis_history = << >>
    /\ NEWSPAPER_AVAILABLE = TRUE
    /\ \E t \in ValidatorTexts : svc_in = Some([text |-> t])
    /\ svc_out = None
    /\ model_loader = None
    /\ instances = << >>
    /\ services = {}
    /\ threads = << >>

\* is_valid, message = TextValidator.is_valid_article_text(text)
ValCheck ==
    /\ svc_in # None
    /\ svc_out = None
    /\ svc_out' = Some(IsValidArticleText(Val(svc_in).text))
    /\ UNCHANGED << pc, url, info, article, summary, sentiment, keywords, outcome,
                    trace, models, settings, NEWSPAPER_AVAILABLE, svc_in >>
    /\ UNCHANGED loader_vars
    /\ UNCHANGED session_vars

ValNext == ValCheck

ValSpec == ValInit /\ [][ValNext]_vars

\* the length the validator measures: that of the stripped text
StrippedLength == Len_(Strip(Val(svc_in).text))

\* C15: a text of fewer than 50 characters, the empty and the
\* whitespace-only text included, is rejected with a message about its
\* length (the empty string with "the text is empty", any other with "too
\* short, minimum 50"); a text of more than 50000 characters is rejected;
\* the length is that of the stripped text, and a stripped length of
\* exactly 50 or exactly 50000 is not rejected on length grounds.
C15_LengthBounds ==
    svc_out # None
    => /\ StrippedLength < 50
            => /\ ~Val(svc_out).ok
               /\ Val(svc_out).msg =
                    (IF Val(svc_in).text = << >> THEN "text_empty"
                     ELSE "text_too_short_min_50")
       /\ StrippedLength > 50000
            => /\ ~Val(svc_out).ok
               /\ Val(svc_out).msg = "text_too_long_max_50000"
       /\ (StrippedLength >= 50 /\ StrippedLength <= 50000)
            => Val(svc_out).msg \in {"text_hardly_korean", "text_valid"}
       /\ Val(svc_out).ok <=> Val(svc_out).msg = "text_valid"
\* a text whose raw length is above the limit and whose stripped length is
\* exactly the limit is accepted
C15_Witness ==
    /\ svc_out # None
    /\ Val(svc_out).ok
    /\ StrippedLength = 50
    /\ Len_(Val(svc_in).text) > 50

-----------------------------------------------------------------------------
(* models/schemas.py: SummaryResult.compression_ratio, a percentage kept   *)
(* to one decimal; the model counts it in tenths of a percent.             *)

\* the quotient is cut off instead of rounded
TruncTenth(num, den) == {num \div den}

\* round(num / den) for den > 0, to the nearest integer.  A float that
\* lies on a rounding tie is slightly above or below it, or on it: both
\* neighbours are possible.
RoundTenth(num, den) ==
    LET q == num \div den
        r == num % den
    IN  IF 2 * r < den THEN {q}
        ELSE IF 2 * r > den THEN {q + 1}
        ELSE {q, q + 1}

\* compression_ratio of a SummaryResult: the possible values
CompressionRatio(result) ==
    IF result.original_length = 0 THEN {0}
    ELSE RoundTenth((result.original_length - result.summary_length) * 1000,
                    result.original_length)

\* the SummaryResult records whose ratio is taken: what summarize returns
\* (nothing to summarize, an error, a summary shorter or longer than the
\* text)
SummaryLengths == {0, 1, 2, 3, 49, 50, 333, 1001}
OriginalLengths == {1, 3, 7, 50, 999, 1000, 50000}
SummaryResults ==
    { [summary |-> [kind |-> "placeholder", text |-> << >>, error |-> ""],
       original_length |-> 0, summary_length |-> 0] }
    \cup [summary : {[kind |-> "error", text |-> << >>, error |-> "generate_error"]},
          original_length : OriginalLengths, summary_length : {0}]
    \cup { [summary |-> [kind |-> "text", text |-> t, error |-> ""],
            original_length |-> o, summary_length |-> Len_(t)] :
              o \in OriginalLengths,
              t \in {<< >>}
                    \cup { << Ko(n) >> : n \in SummaryLengths \ {0} }
                    \cup { << Etc(n) >> : n \in SummaryLengths \ {0} } }

RatioInit ==
    /\ pc = "idle"
    /\ url = None
    /\ info = None
    /\ article = None
    /\ summary = None
    /\ sentiment = None
    /\ keywords = None
    /\ outcome = None
    /\ trace = << >>
    /\ models = [h \in Handles |-> 0]
    /\ settings = None
    /\ current_result = None
    /\ analysis_history = << >>
    /\ NEWSPAPER_AVAILABLE = TRUE
    /\ \E r \in SummaryResults : svc_in = Some(r)
    /\ svc_out = None
    /\ model_loader = None
    /\ instances = << >>
    /\ services = {}
    /\ threads = << >>

\* result.compression_ratio
RatioRead ==
    /\ svc_in # None
    /\ svc_out = None
    /\ \E c \in CompressionRatio(Val(svc_in)) : svc_out' = Some(c)
    /\ UNCHANGED << pc, url, info, article, summary, sentiment, keywords, outcome,
                    trace, models, settings, NEWSPAPER_AVAILABLE, svc_in >>
    /\ UNCHANGED loader_vars
    /\ UNCHANGED session_vars

RatioNext == RatioRead

RatioSpec == RatioInit /\ [][RatioNext]_vars

\* C16: compression_ratio is (1 - summary_length / original_length) * 100
\* to one decimal (at most half a tenth away) whenever original_length > 0,
\* exactly 0.0 when original_length is 0, and the same for every record
\* with the same two lengths.
C16_CompressionRatio ==
    svc_out # None
    => LET o == Val(svc_in).original_length
           s == Val(svc_in).summary_length
           c == Val(svc_out)
       IN  /\ o = 0 => c = 0
           /\ o > 0 => 2 * Abs(c * o - (o - s) * 1000) <= o
           /\ \A other \in SummaryResults :
                (other.original_length = o /\ other.summary_length = s)
                   => c \in CompressionRatio(other)
\* a ratio that needs the rounding, of a record whose lengths another
\* record with another summary shares
C16_Witness ==
    /\ svc_out # None
    /\ Val(svc_in).original_length = 3
    /\ Val(svc_in).summary_length = 2
    /\ Val(svc_out) = 333
    /\ \E other \in SummaryResults :
         /\ other.summary # Val(svc_in).summary
         /\ other.original_length = 3
         /\ other.summary_length = 2

-----------------------------------------------------------------------------
(* A direct call of SummarizerService.summarize(text) *)

SumInit ==
    /\ pc = "idle"
    /\ url = None
    /\ info = None
    /\ article = None
    /\ summary = None
    /\ sentiment = None
    /\ keywords = None
    /\ outcome = None
    /\ trace = << >>
    /\ models \in [Handles -> {0, 1}]
    /\ models["sentiment_analyzer"] = 0
    /\ models["embedding_model"] = 0
    /\ settings = None
    /\ current_result = None
    /\ analysis_history = << >>
    /\ NEWSPAPER_AVAILABLE = TRUE
    /\ \E t \in ShortTexts, env \in SummarizerEnvs :
           svc_in = Some([text |-> t, env |-> env])
    /\ svc_out = None
    /\ model_loader = None
    /\ instances = << >>
    /\ services = {}
    /\ threads = << >>

\* summary = SummarizerService().summarize(text); loads: the loads of the
\* summarization model the call made
SumSummarize ==
    /\ svc_in # None
    /\ svc_out = None
    /\ LET r == Summarize(Val(svc_in).text, models, Val(svc_in).env)
       IN  /\ models' = r.models
           /\ svc_out' = Some([raised |-> r.raised, result |-> r.result,
                               generated |-> r.generated,
                               loads |-> r.models["summarizer"] - models["summarizer"]])
    /\ UNCHANGED << pc, url, info, article, summary, sentiment, keywords, outcome,
                    trace, settings, NEWSPAPER_AVAILABLE, svc_in >>
    /\ UNCHANGED loader_vars
    /\ UNCHANGED session_vars

SumNext == SumSummarize

SumSpec == SumInit /\ [][SumNext]_vars

\* C17: summarize on empty or whitespace-only text returns the
\* placeholder message with original_length 0 and summary_length 0, does
\* not raise, and neither loads nor invokes the summarization model.
C17_NothingToSummarize ==
    (svc_out # None /\ Blank(Val(svc_in).text))
    => /\ ~Val(svc_out).raised
       /\ Val(svc_out).result =
            [summary |-> [kind |-> "placeholder", text |-> << >>, error |-> ""],
             original_length |-> 0, summary_length |-> 0]
       /\ ~Val(svc_out).generated
       /\ Val(svc_out).loads = 0
\* whitespace-only text, with the model not loaded before or after
C17_Witness ==
    /\ svc_out # None
    /\ Val(svc_in).text = << Ws(3) >>
    /\ Val(svc_out).result.summary.kind = "placeholder"
    /\ models["summarizer"] = 0

-----------------------------------------------------------------------------
(* Order of the stages and of the methods within a request (Spec) *)

\* the text the stages are called with
ArticleText == Val(article).content

\* the order of the stages in the state: each stage has run once the
\* request is past it, and none that comes later has
StagesInOrder ==
    /\ pc \in {"crawl", "check_body", "validate"}
         => /\ StageCalls(trace) = << >>
            /\ summary = None /\ sentiment = None /\ keywords = None
    /\ pc \in {"check_body", "validate", "summarize", "sentiment", "keywords", "done"}
         => /\ article # None
            /\ trace # << >>
            /\ trace[1] \in {"newspaper", "beautifulsoup"}
    /\ pc = "summarize"
         => /\ StageCalls(trace) = << "is_valid_article_text" >>
            /\ summary = None /\ sentiment = None /\ keywords = None
    /\ pc = "sentiment"
         => /\ StageCalls(trace) = << "is_valid_article_text", "summarize" >>
            /\ summary # None /\ sentiment = None /\ keywords = None
    /\ pc = "keywords"
         => /\ StageCalls(trace) = << "is_valid_article_text", "summarize", "analyze" >>
            /\ summary # None /\ sentiment # None /\ keywords = None
    /\ pc = "done"
         => /\ StageCalls(trace) = << "is_valid_article_text", "summarize",
                                     "analyze", "extract" >>
            /\ summary # None /\ sentiment # None /\ keywords # None

\* a step of a request: the article stays as extracted, each ML stage
\* computes its result from the article's text, and the request succeeds
\* only from the state in which all three results are there
StageStep ==
    /\ (pc \in {"check_body", "validate", "summarize", "sentiment", "keywords"}
          /\ pc' # "idle")
         => article' = article
    /\ (pc = "summarize" /\ pc' = "sentiment")
         => \E env \in SummarizerEnvs :
               Val(summary') = Summarize(ArticleText, models, env).result
    /\ (pc = "sentiment" /\ pc' = "keywords")
         => \E env \in SentimentEnvs(ArticleText, models, RequestOutcomes) :
               Val(sentiment') \in Analyze(ArticleText, models, env).results
    /\ (pc = "keywords" /\ pc' = "done")
         => \E env \in KeywordEnvs :
               Val(keywords') \in Extract(ArticleText, Val(settings).keyword_count,
                                           models, env).results
    /\ (pc # "idle" /\ pc' = "idle" /\ Val(outcome').kind = "success")
         => pc = "done"

\* C18: within a request the stages run one after the other in the order
\* extract, validate text, summarize, analyze sentiment, extract keywords,
\* each after the one before has returned; the three ML stages are called
\* with the same article text, which stays unchanged, and the
\* AnalysisResult is made only when all three have returned.
C18_StagesRunInOrder == [][StageStep]_vars /\ []StagesInOrder
\* all stages have run on a long article
C18_Witness ==
    /\ pc = "done"
    /\ IsLongText(Normalize(ArticleText))
    /\ Val(summary).original_length = Len_(ArticleText)
    /\ Val(sentiment).label = "POS"
    /\ Len(Val(keywords)) >= 2

\* the number of times a call stands in the trace
Calls(tr, call) == Cardinality({i \in 1..Len(tr) : tr[i] = call})
\* in the trace, second follows first, which raised
AfterFailed(tr, first, second) ==
    \E i \in 1..(Len(tr) - 2) :
        tr[i] = first /\ tr[i + 1] = "raised" /\ tr[i + 2] = second

-----------------------------------------------------------------------------
(* The long-text branch of SentimentService.analyze (SentSpec) *)

\* the call took the long branch: the model was loaded or could be, and
\* the normalized text has more than 1024 characters
LongBranch ==
    /\ svc_out # None
    /\ ~Blank(SentText)
    /\ SentEnv.load_ok
    /\ Len_(Normalize(SentText)) > 1024

\* the sentences of the text that have 10 characters or more
SentencesOfTen ==
    LET ss == SplitSentences(Normalize(SentText))
    IN  {i \in 1..Len(ss) : Len_(Strip(ss[i])) >= 10}

\* the calls of the analyzer that returned a classification
Succeeded == {i \in 1..Len(SentEnv.outs) : SentEnv.outs[i].kind = "ok"}

RECURSIVE LabelSum(_, _, _)
\* the sum of the scores of the successful calls 1..n counted under label l
LabelSum(outs, n, l) ==
    IF n = 0 THEN 0
    ELSE LabelSum(outs, n - 1, l)
         + (IF outs[n].kind = "ok"
               /\ (IF outs[n].label \in DOMAIN LABEL_MAP
                   THEN LABEL_MAP[outs[n].label] ELSE "NEU") = l
            THEN outs[n].score ELSE 0)

\* C20: in the long branch the analyzer is called once for each sentence
\* of 10 characters or more and for no other; calls that raise (or return
\* nothing) are left out; each label's sum is divided by the number of
\* successful calls; the reported label has the highest average (to 4
\* decimals) and the confidence is that average; with no successful call
\* the result is the neutral record with confidence 0.
C20_LongBranchAverages ==
    LongBranch
    => /\ ~Val(svc_out).raised
       /\ Val(svc_out).calls = Cardinality(SentencesOfTen)
       /\ Succeeded = {}
            => SentResult = [label |-> "NEU", confidence |-> 0,
                             scores |-> [POS |-> 0, NEG |-> 0, NEU |-> One]]
       /\ Succeeded # {}
            => LET n == Cardinality(Succeeded)
                   sum(l) == LabelSum(SentEnv.outs, Len(SentEnv.outs), l)
               IN  /\ SentResult.label \in {"POS", "NEG", "NEU"}
                   /\ SentResult.confidence \in Round4(sum(SentResult.label), n)
                   /\ \A l \in {"POS", "NEG", "NEU"} :
                        \E a \in Round4(sum(l), n) : a <= SentResult.confidence
\* a short sentence was passed over, one call raised, and the one call that
\* succeeded gave a score below 1: it is divided by 1, not by the 2 calls
C20_Witness ==
    /\ LongBranch
    /\ Val(svc_out).calls = 2
    /\ Len(SplitSentences(Normalize(SentText))) = 3
    /\ \E i, j \in 1..2 :
         /\ SentEnv.outs[i].kind = "raise"
         /\ SentEnv.outs[j] = [kind |-> "ok", label |-> "LABEL_0",
                               score |-> One \div 3]
    /\ SentResult.label = "NEG"
    /\ SentResult.confidence \in Round4(One \div 3, 1)
    /\ SentResult.confidence \notin Round4(One \div 3, 2)

-----------------------------------------------------------------------------
(* The short-text branch of SentimentService.analyze (SentSpec) *)

\* the call took the short branch and its one classification call returned
\* a (label, score) pair
ShortClassified ==
    /\ svc_out # None
    /\ ~Blank(SentText)
    /\ SentEnv.load_ok
    /\ Len_(Normalize(SentText)) <= 1024
    /\ SentEnv.outs[1].kind = "ok"

\* C21: in the short branch exactly one classification call is made, the
\* reported label's score is the model's confidence, each of the other two
\* labels receives half of the remaining mass 1 - confidence (to 4
\* decimals), so the two are equal, and the three scores sum to 1 up to the
\* rounding.
C21_ShortBranchSplitsRemainder ==
    ShortClassified
    => LET confidence == SentEnv.outs[1].score
           others == {"POS", "NEG", "NEU"} \ {SentResult.label}
       IN  /\ ~Val(svc_out).raised
           /\ Val(svc_out).calls = 1
           /\ SentResult.scores[SentResult.label] = confidence
           /\ Cardinality(others) = 2
           /\ \A l \in others :
                SentResult.scores[l] \in Round4(One - confidence, 2)
           /\ \A l, k \in others : SentResult.scores[l] = SentResult.scores[k]
           /\ Abs(Sum3(SentResult.scores) - One) <= Sub

-----------------------------------------------------------------------------
(* services/crawler.py: the title and the body _extract_with_beautifulsoup *)
(* takes from a fetched page.  A page also has titles: for each title      *)
(* selector, in the order of title_selectors, the text of the first        *)
(* element it matches (for the meta selector: the value of its content     *)
(* attribute), None if it matches no element (or the attribute is absent). *)

title_selectors ==
    << [selector |-> "h1.article_title", meta |-> FALSE],
       [selector |-> "h1.tit_view", meta |-> FALSE],
       [selector |-> "h1#articleTitle", meta |-> FALSE],
       [selector |-> "h1.news_ttl", meta |-> FALSE],
       [selector |-> "meta[property=og:title]", meta |-> TRUE],
       [selector |-> "title", meta |-> FALSE] >>

\* "no title" (jemok eopseum), the placeholder
NoTitle == << KoWord("jemok", 2), Ws(1), KoWord("eopseum", 2) >>

\* an element counts only if it has text
ElementFoundWithText(elem) == elem # None /\ Strip(Val(elem)) # << >>

\* if elem: a Tag is true whatever it contains
ElementFound(elem) == elem # None

RECURSIVE TitleFrom(_, _)
\* the loop of _extract_title from the i-th selector on
TitleFrom(page, i) ==
    IF i > Len(title_selectors) THEN NoTitle
    ELSE LET elem == page.titles[i]
         IN  IF title_selectors[i].meta
             THEN IF elem # None /\ Val(elem) # << >> THEN Val(elem)
                  ELSE TitleFrom(page, i + 1)
             ELSE IF ElementFound(elem) THEN Strip(Val(elem))
                  ELSE TitleFrom(page, i + 1)

\* _extract_title(soup)
ExtractTitle(page) == TitleFrom(page, 1)

\* the element text of a title source named w, and the sources of a page
TitleText(w) == << Ws(1), KoWord(w, 10), Ws(1) >>
SourceChoices(i) ==
    {None, Some(<< >>), Some(TitleText(title_selectors[i].selector))}
    \cup (IF title_selectors[i].meta THEN {Some(<< Ws(2) >>)} ELSE {})
TitleSources ==
    { f \in { << a, b, c, d, e, g >> :
                a \in SourceChoices(1), b \in SourceChoices(2),
                c \in SourceChoices(3), d \in SourceChoices(4),
                e \in SourceChoices(5), g \in SourceChoices(6) } :
        \* of the four heading selectors the pages tried match at most two
        Cardinality({j \in 1..4 : f[j] # None}) <= 2 }

\* the pages fetched: the bodies of Pages with every choice of title sources
FetchedPages ==
    { [naver |-> p.naver, daum |-> p.daum, generic |-> p.generic,
       paras |-> p.paras, titles |-> f] : p \in Pages, f \in TitleSources }

\* the URLs fetched: those with a domain
FetchedUrls == {u \in UrlInputs : u.netloc # << >>}

FallbackInit ==
    /\ pc = "idle"
    /\ url = None
    /\ info = None
    /\ article = None
    /\ summary = None
    /\ sentiment = None
    /\ keywords = None
    /\ outcome = None
    /\ trace = << >>
    /\ models = [h \in Handles |-> 0]
    /\ settings = None
    /\ current_result = None
    /\ analysis_history = << >>
    /\ NEWSPAPER_AVAILABLE = TRUE
    /\ model_loader = None
    /\ instances = << >>
    /\ services = {}
    /\ threads = << >>
    /\ \E u \in FetchedUrls, p \in FetchedPages :
          svc_in = Some([url |-> u, page |-> p])
    /\ svc_out = None

\* _extract_with_beautifulsoup(url) once the page is fetched and parsed:
\* the title and the content of the ArticleData it returns
FallbackExtract ==
    /\ svc_in # None
    /\ svc_out = None
    /\ LET r == ExtractWithBeautifulsoup(Val(svc_in).url,
                                         [error |-> "", page |-> Val(svc_in).page])
       IN  svc_out' = Some([raised |-> r.raised,
                            title |-> ExtractTitle(Val(svc_in).page),
                            content |-> Val(r.article).content])
    /\ UNCHANGED << pc, url, info, article, summary, sentiment, keywords,
                    outcome, trace, models, settings, NEWSPAPER_AVAILABLE,
                    svc_in >>
    /\ UNCHANGED loader_vars
    /\ UNCHANGED session_vars

FallbackNext == FallbackExtract

FallbackSpec == FallbackInit /\ [][FallbackNext]_vars

-----------------------------------------------------------------------------
(* The fallback extractor on a fetched page (FallbackSpec) *)

FbUrl == Val(svc_in).url
FbPage == Val(svc_in).page
FbTitle == Val(svc_out).title
FbContent == Val(svc_out).content

\* the text of the element the body selector of the URL's site matches
BodyElement ==
    IF Contains(naver_com, FbUrl.netloc) THEN FbPage.naver
    ELSE IF Contains(daum_net, FbUrl.netloc) THEN FbPage.daum
    ELSE FbPage.generic

\* does the text have a character that is no whitespace?
HasText(t) == \E i \in 1..Len(t) : t[i].k # "ws"

\* the title sources of the page that exist, and those that have text
SourcesPresent == {i \in 1..6 : FbPage.titles[i] # None}
SourcesWithText ==
    {i \in SourcesPresent : HasText(Val(FbPage.titles[i]))}

\* the source the title is taken from: the first heading or <title>
\* element present, or og:title meta with a non-empty content
SourcesTaken ==
    {i \in SourcesPresent : i = 5 => Val(FbPage.titles[i]) # << >>}
First(S) == CHOOSE i \in S : \A j \in S : i <= j

\* is s the text t without the whitespace at its two ends?
Stripped(t, s) ==
    IF ~HasText(t) THEN s = << >>
    ELSE \E a, b \in 1..Len(t) :
            /\ a <= b
            /\ s = SubSeq(t, a, b)
            /\ t[a].k # "ws"
            /\ t[b].k # "ws"
            /\ \A i \in 1..Len(t) : (i < a \/ i > b) => t[i].k = "ws"

\* C22 as stated: when the body selector matches, the body is not empty;
\* the title is the text of the first title source that has one; the
\* placeholder is returned only when no title source exists; the title is
\* not empty while a title source with text exists.
C22_Original ==
    svc_out # None
    => /\ ~Val(svc_out).raised
       /\ BodyElement # None => FbContent # << >>
       /\ FbTitle = NoTitle => SourcesPresent = {}
       /\ SourcesWithText # {}
            => /\ FbTitle # << >>
               /\ HasText(FbTitle)
               /\ LET i == First(SourcesWithText)
                  IN  FbTitle = (IF i = 5 THEN Val(FbPage.titles[i])
                                 ELSE Strip(Val(FbPage.titles[i])))
\* C22 amended: when the body selector of the URL's site matches, the body
\* is the cleaned text of the matched element, which is empty when the
\* element has nothing but whitespace.  The title comes from the first
\* source taken in the order heading selectors, og:title, <title>: a
\* heading or <title> element is taken when present, even without text
\* (the title is then empty although a later source may have text);
\* og:title is taken when its content is not the empty string and is
\* returned unstripped.  The placeholder is returned exactly when no source
\* is taken.
C22_FirstMatchWins ==
    svc_out # None
    => /\ ~Val(svc_out).raised
       /\ BodyElement # None
            => /\ FbContent # << >> <=> HasText(Val(BodyElement))
               /\ FbContent # << >>
                    => /\ FbContent[1].k # "ws"
                       /\ FbContent[Len(FbContent)].k # "ws"
       /\ SourcesTaken = {} <=> FbTitle = NoTitle
       /\ SourcesTaken # {}
            => LET i == First(SourcesTaken)
                   text == Val(FbPage.titles[i])
               IN  /\ i = 5 => FbTitle = text
                   /\ i # 5 => Stripped(text, FbTitle)
\* the body element and the first heading hold only whitespace while
\* og:title and <title> have text: body and title are both empty
C22_Witness ==
    /\ svc_out # None
    /\ BodyElement # None
    /\ FbContent = << >>
    /\ FbPage.titles[2] = Some(<< >>)
    /\ FbPage.titles[1] = None
    /\ 5 \in SourcesWithText
    /\ 6 \in SourcesWithText
    /\ FbTitle = << >>

-----------------------------------------------------------------------------
(* app.py main() and components/sidebar.py add_to_history: the session     *)
(* state over the reruns of the script.  A rerun in which the button was   *)
(* pressed is one step; analyze_news, modelled step by step above, is here *)
(* a call that raises one of its errors or returns an AnalysisResult.  The *)
(* k-th article analysed with success has a title of its own.  trace is    *)
(* the list of the entries passed to add_to_history.  The "time" field of  *)
(* an entry (the clock) is left out.                                       *)

\* the most entries the history keeps
MaxHistory == 20
\* the characters of a summary kept in an entry
SummaryShown == 100
\* calls of add_to_history followed
MaxAdds == 22

RECURSIVE TakeChars(_, _)
\* text[:n]
TakeChars(t, n) ==
    IF t = << >> \/ n <= 0 THEN << >>
    ELSE IF Head(t).n <= n
         THEN << Head(t) >> \o TakeChars(Tail(t), n - Head(t).n)
         ELSE << [Head(t) EXCEPT !.n = n] >>

\* the history keeps its oldest entries
KeepFirst(h) == SubSeq(h, 1, MaxHistory)

\* session_state.analysis_history[-20:]
KeepLast(h) == SubSeq(h, Len(h) - MaxHistory + 1, Len(h))

\* add_to_history(session_state, title, url, sentiment, summary): the
\* history afterwards
AddToHistory(history, entry) ==
    LET appended == Append(history, entry)
    IN  IF Len(appended) > MaxHistory THEN KeepLast(appended) ELSE appended

\* the AnalysisResult of the k-th article: what main() reads of it
ResultOf(k) ==
    [article |-> [title |-> << KoWord("title", k) >>],
     sentiment |-> [label |-> Labels[(k % 3) + 1]],
     summary |-> [summary |-> << Ko(90 + k), End(1) >>]]

\* what analyze_news(url, settings) does for main(): it raises (the
\* crawler's fetch failed, the body is empty, the text is rejected), or
\* returns the result of the k-th article, each model loaded by then unless
\* its load failed; m is the cache before the call
AnalyzeNewsOutcomes(k, m) ==
    { [raised |-> TRUE, msg |-> e, result |-> None, models |-> m] :
        e \in HttpErrors \cup {MsgNoBody, MsgTooShort, MsgTooLong, MsgNoKorean} }
    \cup { [raised |-> FALSE, msg |-> "", result |-> Some(ResultOf(k)), models |-> l] :
              l \in {l \in [Handles -> {0, 1}] : \A h \in Handles : l[h] >= m[h]} }

\* every URL goes on to the analysis
UrlRefusedNever(u) == FALSE

\* if not URLValidator.is_valid_url(url): st.error(...)
UrlRefused(u) == ~IsValidUrl(u)

SessionInit ==
    /\ pc = "idle"
    /\ url = None
    /\ info = None
    /\ article = None
    /\ summary = None
    /\ sentiment = None
    /\ keywords = None
    /\ outcome = None
    /\ trace = << >>
    /\ models = [h \in Handles |-> 0]
    /\ settings = None
    /\ NEWSPAPER_AVAILABLE = TRUE
    /\ svc_in = None
    /\ svc_out = None
    /\ model_loader = None
    /\ instances = << >>
    /\ services = {}
    /\ threads = << >>
    /\ current_result = None
    /\ analysis_history = << >>

\* main(), lines 165-192: a rerun with the button pressed and a non-empty
\* input
Rerun(input) ==
    /\ Len(trace) < MaxAdds
    /\ \E u \in {SanitizeUrl(input)} :
        /\ url' = Some(u)
        /\ IF UrlRefused(u)
           THEN /\ info' = None
                /\ outcome' = Some([kind |-> "invalid_url", msg |-> MsgEnterValidUrl])
                /\ UNCHANGED << trace, models, current_result, analysis_history >>
           ELSE \E message \in {IsNewsUrl(u).msg},
                   res \in AnalyzeNewsOutcomes(Len(trace) + 1, models) :
                /\ info' = Some(message)
                /\ IF res.raised
                   THEN /\ outcome' = Some(Error(res.msg))
                        /\ UNCHANGED << trace, models, current_result,
                                        analysis_history >>
                   ELSE LET result == Val(res.result)
                            entry == [title |-> result.article.title,
                                      url |-> u,
                                      sentiment |-> result.sentiment.label,
                                      summary |-> TakeChars(result.summary.summary,
                                                            SummaryShown)]
                        IN  /\ current_result' = Some(result)
                            /\ analysis_history' = AddToHistory(analysis_history, entry)
                            /\ trace' = Append(trace, entry)
                            /\ outcome' = Some([kind |-> "success", msg |-> ""])
                            /\ models' = res.models
    /\ UNCHANGED << pc, article, summary, sentiment, keywords, settings,
                    NEWSPAPER_AVAILABLE, svc_in, svc_out >>
    /\ UNCHANGED loader_vars

\* what the user types during the session: one article's address, with or
\* without its scheme, or an input that is no URL
SessionInputs == {u \in UrlInputs : u.netloc \in {news_naver_com, << >>}}

SessionNext == \E input \in SessionInputs : Rerun(input)

SessionSpec == SessionInit /\ [][SessionNext]_vars

-----------------------------------------------------------------------------
(* The analysis history (SessionSpec) *)

\* the entries added so far, and the last n of them
Added == trace
Latest(n) == SubSeq(Added, Len(Added) - n + 1, Len(Added))
Min(a, b) == IF a <= b THEN a ELSE b

\* a step that adds an entry ends an analysis that completed: the result
\* it stored is the one the entry was made from
AddsAfterSuccess ==
    analysis_history' # analysis_history
    => /\ outcome' = Some([kind |-> "success", msg |-> ""])
       /\ Len(trace') = Len(trace) + 1
       /\ current_result' # None
       /\ trace'[Len(trace')].title = Val(current_result').article.title

\* C23: the history holds at most 20 entries, exactly the most recent
\* min(n, 20) of the n entries added, in the order they were added, and an
\* entry is added only after an analysis completed with success.
C23_HistoryKeepsLatest ==
    /\ [](/\ Len(analysis_history) <= 20
          /\ analysis_history = Latest(Min(Len(Added), 20)))
    /\ [][AddsAfterSuccess]_vars
\* more than 20 entries were added: the first ones are gone
C23_Witness ==
    /\ Len(Added) = 22
    /\ Len(analysis_history) = 20
    /\ analysis_history[1] = Added[3]
    /\ analysis_history[20] = Added[22]
    /\ Len_(analysis_history[20].summary) = 100

-----------------------------------------------------------------------------
(* Requests that fail (SessionSpec) *)

\* the last request failed: its URL was refused as malformed, or
\* analyze_news raised (the fetch failed, the body was empty, or the text
\* was rejected)
RequestFailed ==
    /\ url # None
    /\ \/ ~IsValidUrl(Val(url))
       \/ /\ outcome # None
          /\ Val(outcome).kind = "error"
          /\ Val(outcome).msg \in {"request_error", "http_error",
                                   "cannot_extract_article_body",
                                   "text_too_short_min_50",
                                   "text_too_long_max_50000",
                                   "text_hardly_korean"}

\* the result on display is the one of the last analysis that completed
ShowsLastCompleted ==
    IF Added = << >> THEN current_result = None
    ELSE /\ current_result # None
         /\ Val(current_result).article.title = Added[Len(Added)].title

\* C24: a request that fails (malformed URL, extraction error, empty body,
\* rejected text) changes neither current_result nor analysis_history: the
\* result stored before is still the one on display and no entry is added.
C24_FailureKeepsSession ==
    /\ [][RequestFailed'
            => /\ current_result' = current_result
               /\ analysis_history' = analysis_history]_vars
    /\ [](RequestFailed => ShowsLastCompleted)
\* a request failed on an empty body after two analyses had completed
C24_Witness ==
    /\ RequestFailed
    /\ Val(outcome).msg = "cannot_extract_article_body"
    /\ Len(analysis_history) = 2
    /\ current_result # None
    /\ Val(current_result).article.title = analysis_history[2].title

-----------------------------------------------------------------------------
(* Lazy loading of the models during the requests (Spec) *)

\* the stage of analyze_news whose service reads the handle
StageOf(h) ==
    IF h = "summarizer" THEN "summarize"
    ELSE IF h = "sentiment_analyzer" THEN "sentiment"
    ELSE "keywords"

\* the steps up to the validation of the text load nothing; a step loads a
\* handle only if it is the step of the stage that uses it, on a text that
\* is not blank, and the handle was not loaded before
LoadsOnlyInStage ==
    /\ pc \in {"idle", "crawl", "check_body", "validate"} => models' = models
    /\ \A h \in {"summarizer", "sentiment_analyzer", "embedding_model"} :
         models'[h] # models[h]
         => /\ pc = StageOf(h)
            /\ models[h] = 0
            /\ models'[h] = 1
            /\ article # None
            /\ \E i \in 1..Len(Val(article).content) :
                  Val(article).content[i].k # "ws"

\* C25: once the services are constructed no model is loaded; a request
\* rejected at the URL check, at the extraction or at the validation of the
\* text loads none of the three handles; a handle is loaded only when the
\* stage that uses it runs, on non-empty text, for the first time.
C25_ModelsLoadLazily ==
    /\ \A h \in {"summarizer", "sentiment_analyzer", "embedding_model"} :
          models[h] = 0
    /\ [][LoadsOnlyInStage]_vars
\* the text of a request was rejected and no model is loaded, after the
\* services were constructed and an article was fetched
C25_Witness ==
    /\ pc = "idle"
    /\ outcome = Some([kind |-> "error", msg |-> "text_too_short_min_50"])
    /\ trace # << >>
    /\ trace[Len(trace)] = "is_valid_article_text"
    /\ \A h \in {"summarizer", "sentiment_analyzer", "embedding_model"} :
          models[h] = 0
=============================================================================
